---- MODULE Spec2Model ----
(***************************************************************************)
(* Model of the image cleanup of prim (Private-Registry-Image-Manager):    *)
(* the two JSON stores (ImageTracker, CleanPreferencesManager), the Docker *)
(* engine as seen through DockerClient, the reconciliation of tracked and  *)
(* live images (CleanCommand.gatherAllRelevantImages) and the `clean`      *)
(* command (CleanCommand.run).                                             *)
(*                                                                         *)
(* Strings the code takes apart (tags, repositories, image references,     *)
(* store keys) are sequences of one-character strings; strings the code    *)
(* only copies or tests for emptiness (sizes, timestamps, container ids)   *)
(* are TLA+ strings.                                                       *)
(*                                                                         *)
(* Environment: the engine answers the read-only queries (images, ps) once *)
(* checkAvailability has passed, and a store file that is written is       *)
(* written whole.  Removal commands (rm -f, rmi) fail or succeed freely,   *)
(* and a store file may be absent or unparseable when it is read.          *)
(*                                                                         *)
(* Specifications: Spec (one run of `prim clean`), SpecRecon (one call of  *)
(* gatherAllRelevantImages), SpecStore and SpecTrack (calls of the         *)
(* Preference Store and of the Tracking Store), SpecRace (two invocations  *)
(* inside a store call at once), SpecTag (TagGenerator.generate),          *)
(* SpecKeys (store calls whose read may fail, with ':' in the paths),      *)
(* SpecDeploy (one run of `prim deploy` up to the push), SpecBuilt (a      *)
(* build followed by `prim clean --tag`), SpecLive (Spec with fairness of  *)
(* the removal loops).                                                     *)
(***************************************************************************)
EXTENDS Integers, Sequences, FiniteSets, TLC

VARIABLES
  config,           \* [localRepo, registryRepo]: Config as CleanCommand.run reads it
  options,          \* [tag, yes]: CleanOptions; tag = <<>> when --tag is not given
  prefsFile,        \* clean-preferences.json: [ok, data]
  trackFile,        \* tracked-images.json: [ok, data]
  engineImages,     \* the engine's images, in the order `docker images` lists them
  engineContainers, \* the engine's containers: set of [id, ancestors]
  pc,               \* position of the running command
  imagesToClean,    \* CleanCommand.run: imagesToClean
  selectedImages,   \* CleanCommand.run: selectedImages
  existingTargets,  \* CleanCommand.cleanSpecificTag: existingTargets
  containers,       \* the container ids the current removeContainers call iterates
  idx,              \* index of the current target in the running loop
  log,              \* every engine removal call, prompt and store write, in order
  calls,            \* the calls of SpecStore, SpecTrack and SpecTag with arguments and results
  start,            \* the stores and the engine as they were when the command started
  procs             \* concurrent invocations of the tool inside a store call

vars == <<config, options, prefsFile, trackFile, engineImages, engineContainers,
          pc, imagesToClean, selectedImages, existingTargets, containers, idx,
          log, calls, start, procs>>

----------------------------------------------------------------------------
(* Bounds of the model *)

MaxTag == 2          \* tags v1 .. vMaxTag
MaxContainers == 1   \* container ids c1 .. cMaxContainers
MaxCalls == 3        \* store API calls in one behaviour of SpecStore

----------------------------------------------------------------------------
(* Strings *)

Digit == <<"1", "2", "3", "4", "5", "6", "7", "8", "9">>

TagN(n) == <<"v", Digit[n]>>

Tags == {TagN(n) : n \in 1..MaxTag}

Colon == <<":">>

\* String.prototype.startsWith
startsWith(s, prefix) ==
  /\ Len(s) >= Len(prefix)
  /\ SubSeq(s, 1, Len(prefix)) = prefix

\* String.prototype.includes
includes(s, sub) ==
  \E k \in 1..(Len(s) - Len(sub) + 1) : SubSeq(s, k, k + Len(sub) - 1) = sub

\* String.prototype.split with a one-character separator
RECURSIVE splitFrom(_, _, _)
splitFrom(s, sep, cur) ==
  IF s = <<>> THEN <<cur>>
  ELSE IF Head(s) = sep THEN <<cur>> \o splitFrom(Tail(s), sep, <<>>)
  ELSE splitFrom(Tail(s), sep, Append(cur, Head(s)))

split(s, sep) == splitFrom(s, sep, <<>>)

\* the value of an optional field that is not set
undefined == "undefined"

\* JavaScript truthiness of an optional string
truthy(s) == s # undefined /\ s # ""

\* a || b on optional strings
orElse(a, b) == IF truthy(a) THEN a ELSE b

RECURSIVE SeqToSet(_)
SeqToSet(s) == IF s = <<>> THEN {} ELSE {Head(s)} \cup SeqToSet(Tail(s))

\* the sequences over S without repetition, of length at most n
RECURSIVE Arrangements(_, _)
Arrangements(S, n) ==
  IF n = 0 \/ S = {} THEN {<<>>}
  ELSE {<<>>} \cup UNION {{<<x>> \o r : r \in Arrangements(S \ {x}, n - 1)} : x \in S}

\* the orderings of all elements of S
Orderings(S) == {s \in Arrangements(S, Cardinality(S)) : Len(s) = Cardinality(S)}

\* the permutations of a sequence
Perms(s) ==
  {[k \in 1..Len(s) |-> s[p[k]]] : p \in Orderings(1..Len(s))}

----------------------------------------------------------------------------
(* JavaScript objects as the stores use them *)

\* {}
EmptyObject == <<>>

\* obj[k] = v
Put(obj, k, v) == [x \in (DOMAIN obj) \cup {k} |-> IF x = k THEN v ELSE obj[x]]

\* delete obj[k]
Delete(obj, k) == [x \in (DOMAIN obj) \ {k} |-> obj[x]]

----------------------------------------------------------------------------
(* Configuration and file system *)

\* process.cwd() of the running command
projectPath == <<"/", "p">>

\* a project directory that has been deleted since its preferences were saved
GonePath == <<"/", "g">>

\* a project directory of another project, still on disk
OtherPath == <<"/", "q">>

\* fs.access(path) succeeds
pathExists(p) == p # GonePath

\* Config values: localImageName, and getRegistryHost() + "/" + repository
\* (a plain host, a host with a port, a local name that is the registry name)
Configs ==
  { [localRepo |-> <<"a">>, registryRepo |-> <<"r", "/", "a">>],
    [localRepo |-> <<"a">>, registryRepo |-> <<"h", ":", "5", "/", "a">>],
    [localRepo |-> <<"r", "/", "a">>, registryRepo |-> <<"r", "/", "a">>] }

\* `${repo}:${tag}`
Ref(repo, tag) == repo \o Colon \o tag

----------------------------------------------------------------------------
(* Preference Store: CleanPreferencesManager *)

\* loadPreferences: the parsed file, {} when it is absent or unparseable
loadPreferences(file) == IF file.ok THEN file.data ELSE EmptyObject

\* getExcludedTags: preferences[projectPath]?.[imageName] || []
getExcludedTags(file, p, i) ==
  LET preferences == loadPreferences(file) IN
  IF p \in DOMAIN preferences /\ i \in DOMAIN preferences[p]
  THEN preferences[p][i]
  ELSE <<>>

\* a saveExcludedTags that keeps the entry of an empty exclusion set
saveExcludedTagsKeepEmpty(file, p, i, excludedTags) ==
  LET preferences == loadPreferences(file)
      withProject == IF p \in DOMAIN preferences THEN preferences
                     ELSE Put(preferences, p, EmptyObject)
  IN [ok |-> TRUE, data |-> Put(withProject, p, Put(withProject[p], i, excludedTags))]

\* saveExcludedTags: the file after the call
saveExcludedTags(file, p, i, excludedTags) ==
  LET preferences == loadPreferences(file)
      withProject == IF p \in DOMAIN preferences THEN preferences
                     ELSE Put(preferences, p, EmptyObject)
      removed == Delete(withProject[p], i)
      after == IF Len(excludedTags) > 0
               THEN Put(withProject, p, Put(withProject[p], i, excludedTags))
               ELSE IF DOMAIN removed = {}
                    THEN Delete(withProject, p)
                    ELSE Put(withProject, p, removed)
  IN [ok |-> TRUE, data |-> after]

\* a clearPreferences that stores the empty list
clearPreferencesKeepEntry(file, p, i) == saveExcludedTagsKeepEmpty(file, p, i, <<>>)

\* clearPreferences
clearPreferences(file, p, i) == saveExcludedTags(file, p, i, <<>>)

\* cleanupStalePreferences: hasChanges
staleProjects(file) == {p \in DOMAIN loadPreferences(file) : ~pathExists(p)}

\* cleanupStalePreferences: the file after the call (written only if hasChanges)
cleanupStalePreferences(file) ==
  LET preferences == loadPreferences(file) IN
  IF staleProjects(file) # {}
  THEN [ok |-> TRUE,
        data |-> [p \in (DOMAIN preferences) \ staleProjects(file) |-> preferences[p]]]
  ELSE file

----------------------------------------------------------------------------
(* Dates *)

\* builtAt values: new Date().toISOString() of successive days
IsoStamp ==
  << "2025-08-01T00:00:00.000Z", "2025-08-02T00:00:00.000Z",
     "2025-08-03T00:00:00.000Z", "2025-08-04T00:00:00.000Z" >>

\* new Date(0)
Epoch == [nan |-> FALSE, t |-> 0]

\* new Date(s) of a string that is no date (Invalid Date, getTime() is NaN)
InvalidDate == [nan |-> TRUE, t |-> 0]

\* new Date(s).getTime(), in days since 2025-07-31
newDate(s) ==
  IF \E d \in 1..Len(IsoStamp) : IsoStamp[d] = s
  THEN [nan |-> FALSE, t |-> CHOOSE d \in 1..Len(IsoStamp) : IsoStamp[d] = s]
  ELSE InvalidDate

\* the sign of x.getTime() - y.getTime(); NaN counts as +0 in Array.prototype.sort
timeDiffSign(x, y) ==
  IF x.nan \/ y.nan THEN 0
  ELSE IF x.t > y.t THEN 1 ELSE IF x.t < y.t THEN -1 ELSE 0

\* the comparator both sorts of the cleanup use, on elements paired with their
\* dates: dateB.getTime() - dateA.getTime() (newest first)
newestFirst(a, b) == timeDiffSign(b.date, a.date)

\* Array.prototype.sort (stable) under newestFirst: x goes behind every element
\* that the comparator does not order after it
RECURSIVE insertSorted(_, _)
insertSorted(sorted, x) ==
  IF sorted = <<>> THEN <<x>>
  ELSE LET last == sorted[Len(sorted)] IN
       IF newestFirst(last, x) > 0
       THEN Append(insertSorted(SubSeq(sorted, 1, Len(sorted) - 1), x), last)
       ELSE Append(sorted, x)

RECURSIVE sortFrom(_, _)
sortFrom(sorted, rest) ==
  IF rest = <<>> THEN sorted
  ELSE sortFrom(insertSorted(sorted, Head(rest)), Tail(rest))

\* s.sort(newestFirst) of a sequence of [date, value]; the values in sorted order
sort(s) ==
  LET sorted == sortFrom(<<>>, s) IN [k \in 1..Len(sorted) |-> sorted[k].value]

----------------------------------------------------------------------------
(* Tracking Store: ImageTracker *)

\* `${projectPath}:${imageName}:${tag}`
trackKey(p, n, t) == p \o Colon \o n \o Colon \o t

\* a TrackedImage (dockerfile and buildArgs are never read by the cleanup)
TrackedImage(p, n, t, builtAt, size) ==
  [imageName |-> n, tag |-> t, fullImageName |-> Ref(n, t), projectPath |-> p,
   builtAt |-> builtAt, size |-> size]

\* loadTrackedImages: the parsed file in key order, {} when absent or unparseable
loadTrackedImages(file) == IF file.ok THEN file.data ELSE <<>>

\* key in tracked
hasKey(tracked, key) == \E k \in 1..Len(tracked) : tracked[k].key = key

\* a trackImage that adds the image without looking for its key
trackImageAppend(file, image) ==
  [ok |-> TRUE,
   data |-> Append(loadTrackedImages(file),
                   [key |-> trackKey(image.projectPath, image.imageName, image.tag),
                    image |-> image])]

\* trackImage: existing[key] = image, then the file is written
trackImage(file, image) ==
  LET existing == loadTrackedImages(file)
      key == trackKey(image.projectPath, image.imageName, image.tag)
      entry == [key |-> key, image |-> image]
  IN [ok |-> TRUE,
      data |-> IF hasKey(existing, key)
               THEN [k \in 1..Len(existing) |->
                       IF existing[k].key = key THEN entry ELSE existing[k]]
               ELSE Append(existing, entry)]

\* getTrackedImages
getTrackedImages(file, p, n) ==
  LET tracked == loadTrackedImages(file)
      prefix == p \o Colon \o n \o Colon
      matching == SelectSeq(tracked, LAMBDA e : startsWith(e.key, prefix))
  IN sort([k \in 1..Len(matching) |->
             [date |-> newDate(matching[k].image.builtAt),
              value |-> matching[k].image]])

\* removeTrackedImage: whether the file is written
removeTrackedImageWrites(file, p, n, t) ==
  hasKey(loadTrackedImages(file), trackKey(p, n, t))

\* a removeTrackedImage that deletes the entries of every project with that
\* image name and tag
removeTrackedImageAnyProject(file, p, n, t) ==
  LET tracked == loadTrackedImages(file)
      hit(e) == e.image.imageName = n /\ e.image.tag = t
  IN IF \E k \in 1..Len(tracked) : hit(tracked[k])
     THEN [ok |-> TRUE, data |-> SelectSeq(tracked, LAMBDA e : ~hit(e))]
     ELSE file

\* removeTrackedImage: the file after the call
removeTrackedImage(file, p, n, t) ==
  LET tracked == loadTrackedImages(file)
      key == trackKey(p, n, t)
  IN IF hasKey(tracked, key)
     THEN [ok |-> TRUE, data |-> SelectSeq(tracked, LAMBDA e : e.key # key)]
     ELSE file

\* milliseconds in a day
msPerDay == 24 * 60 * 60 * 1000

\* cleanupStaleImages: staleThreshold, 7 days
staleThreshold == 7 * 24 * 60 * 60 * 1000

\* Date.getTime(), in milliseconds since 2025-07-31T00:00:00.000Z
getTime(date) == date.t * msPerDay

\* a staleness test that also takes the entries built exactly 7 days ago
isStaleInclusive(image, now) ==
  /\ ~newDate(image.builtAt).nan
  /\ now - getTime(newDate(image.builtAt)) >= staleThreshold

\* cleanupStaleImages: now.getTime() - builtAt.getTime() > staleThreshold; the
\* comparison is false when builtAt is no date
isStale(image, now) ==
  /\ ~newDate(image.builtAt).nan
  /\ now - getTime(newDate(image.builtAt)) > staleThreshold

\* cleanupStaleImages: whether the file is written
cleanupStaleImagesWrites(file, now) ==
  \E k \in 1..Len(loadTrackedImages(file)) : isStale(loadTrackedImages(file)[k].image, now)

\* cleanupStaleImages at time now: the file after the call
cleanupStaleImages(file, now) ==
  IF cleanupStaleImagesWrites(file, now)
  THEN [ok |-> TRUE,
        data |-> SelectSeq(loadTrackedImages(file), LAMBDA e : ~isStale(e.image, now))]
  ELSE file

\* the keys the store holds
trackedKeys(file) ==
  {loadTrackedImages(file)[k].key : k \in 1..Len(loadTrackedImages(file))}

----------------------------------------------------------------------------
(* The engine as DockerClient sees it *)

\* the tag `docker images` prints for an image without a tag
NoneTag == <<"<", "n", "o", "n", "e", ">">>

latest == <<"l", "a", "t", "e", "s", "t">>

\* one line of `docker images <repo> --format {{.Repository}}:{{.Tag}}\t{{.Size}}\t{{.CreatedSince}}`,
\* already cut at the tabs
outputLine(img) ==
  [repoTag |-> Ref(img.repository, img.tag), size |-> img.size, created |-> img.created]

\* the output of `docker images <repo>`: the images of that repository
dockerImagesOutput(images, repo) ==
  LET own == SelectSeq(images, LAMBDA img : img.repository = repo)
  IN [k \in 1..Len(own) |-> outputLine(own[k])]

\* getAllProjectImages: the object built from one output line; the tag is the
\* second part of repoTag.split(':')
parseLine(line) ==
  LET parts == split(line.repoTag, ":")
      tag == IF Len(parts) >= 2 THEN parts[2] ELSE <<>>
  IN [image |-> line.repoTag,
      tag |-> IF tag # <<>> THEN tag ELSE latest,
      size |-> IF line.size # "" THEN line.size ELSE "unknown",
      created |-> IF line.created # "" THEN line.created ELSE "unknown"]

\* getAllProjectImages: the lines of one repository that are kept, parsed
projectImagesOf(images, repo) ==
  LET lines == SelectSeq(dockerImagesOutput(images, repo),
                         LAMBDA line : ~includes(line.repoTag, Colon \o NoneTag))
  IN [k \in 1..Len(lines) |-> parseLine(lines[k])]

\* getAllProjectImages
getAllProjectImages(images, localRepo, registryRepo) ==
  projectImagesOf(images, localRepo) \o projectImagesOf(images, registryRepo)

\* imageExists: `docker images -q <ref>` prints an id
imageExists(images, ref) ==
  \E k \in 1..Len(images) : Ref(images[k].repository, images[k].tag) = ref

\* listContainersByAncestor: `docker ps -a --filter ancestor=<ref> -q`
listContainersByAncestor(conts, ref) ==
  LET own == SelectSeq(conts, LAMBDA c : ref \in c.ancestors)
  IN [k \in 1..Len(own) |-> own[k].id]

\* a container with this id exists
containerExists(conts, id) == \E k \in 1..Len(conts) : conts[k].id = id

\* the engine after a successful `docker rm -f <id>`
withoutContainer(conts, id) == SelectSeq(conts, LAMBDA c : c.id # id)

\* the engine after a successful `docker rmi <ref>`
withoutImage(images, ref) ==
  SelectSeq(images, LAMBDA img : Ref(img.repository, img.tag) # ref)

----------------------------------------------------------------------------
(* Reconciliation: CleanCommand.gatherAllRelevantImages *)

\* imageMap.has(image)
mapHas(m, image) == \E k \in 1..Len(m) : m[k].image = image

\* imageMap.get(image)
mapGet(m, image) == m[CHOOSE k \in 1..Len(m) : m[k].image = image]

\* imageMap.set(target.image, target): a Map keeps the position of a key it has
mapSet(m, target) ==
  IF mapHas(m, target.image)
  THEN [k \in 1..Len(m) |-> IF m[k].image = target.image THEN target ELSE m[k]]
  ELSE Append(m, target)

\* the ImageToClean of a tracked image
trackedTarget(tracked, conts, localRepo) ==
  [image |-> Ref(localRepo, tracked.tag), tag |-> tracked.tag, size |-> tracked.size,
   created |-> tracked.builtAt, isTracked |-> TRUE,
   containers |-> listContainersByAncestor(conts, Ref(localRepo, tracked.tag))]

\* a first loop that ends after its first pass
addTrackedFirstOnly(m, trackedImages, conts, localRepo) ==
  IF trackedImages = <<>> THEN m
  ELSE mapSet(m, trackedTarget(Head(trackedImages), conts, localRepo))

\* the first loop: "Add tracked images"
RECURSIVE addTracked(_, _, _, _)
addTracked(m, trackedImages, conts, localRepo) ==
  IF trackedImages = <<>> THEN m
  ELSE addTracked(mapSet(m, trackedTarget(Head(trackedImages), conts, localRepo)),
                  Tail(trackedImages), conts, localRepo)

\* the merge of a live image into the target already in the map that prefers
\* the live fields
mergedPreferLive(existing, dockerImg, conts) ==
  [existing EXCEPT !.size = orElse(dockerImg.size, existing.size),
                   !.created = orElse(dockerImg.created, existing.created),
                   !.containers = listContainersByAncestor(conts, dockerImg.image)]

\* the merge of a live image into the target already in the map
merged(existing, dockerImg, conts) ==
  [existing EXCEPT !.size = orElse(existing.size, dockerImg.size),
                   !.created = orElse(existing.created, dockerImg.created),
                   !.containers = listContainersByAncestor(conts, dockerImg.image)]

\* a target of a live image that is marked as tracked
liveTargetMarkedTracked(dockerImg, conts) ==
  [image |-> dockerImg.image, tag |-> dockerImg.tag, size |-> dockerImg.size,
   created |-> dockerImg.created, isTracked |-> TRUE,
   containers |-> listContainersByAncestor(conts, dockerImg.image)]

\* the ImageToClean of a live image that is not in the map
liveTarget(dockerImg, conts) ==
  [image |-> dockerImg.image, tag |-> dockerImg.tag, size |-> dockerImg.size,
   created |-> dockerImg.created, isTracked |-> FALSE,
   containers |-> listContainersByAncestor(conts, dockerImg.image)]

\* one pass of the second loop without the imageMap.has test
addOneLiveNoDedup(m, dockerImg, conts) == Append(m, liveTarget(dockerImg, conts))

\* one pass of the second loop: "Add Docker images"
addOneLive(m, dockerImg, conts) ==
  IF mapHas(m, dockerImg.image)
  THEN mapSet(m, merged(mapGet(m, dockerImg.image), dockerImg, conts))
  ELSE mapSet(m, liveTarget(dockerImg, conts))

RECURSIVE addLive(_, _, _)
addLive(m, dockerImages, conts) ==
  IF dockerImages = <<>> THEN m
  ELSE addLive(addOneLive(m, Head(dockerImages), conts), Tail(dockerImages), conts)

\* new Date(a.created || 0)
createdDate(target) ==
  IF truthy(target.created) THEN newDate(target.created) ELSE Epoch

\* the map after both loops, in insertion order
mergeImages(trackedImages, dockerImages, conts, localRepo) ==
  addLive(addTracked(<<>>, trackedImages, conts, localRepo), dockerImages, conts)

\* gatherAllRelevantImages, given what getTrackedImages and getAllProjectImages
\* returned
reconcile(trackedImages, dockerImages, conts, localRepo) ==
  LET m == mergeImages(trackedImages, dockerImages, conts, localRepo)
  IN sort([k \in 1..Len(m) |-> [date |-> createdDate(m[k]), value |-> m[k]]])

\* gatherAllRelevantImages
gatherAllRelevantImages(file, images, conts, localRepo, registryRepo) ==
  reconcile(getTrackedImages(file, projectPath, localRepo),
            getAllProjectImages(images, localRepo, registryRepo),
            conts, localRepo)

----------------------------------------------------------------------------
(* The clean command: CleanCommand *)

\* an entry of the log: an engine call, a prompt or a store write of the run
\*   op   "rm" (docker rm -f ids[1]), "rmi" (removeImage ref), "ps" (the
\*        containers ids listed for target ref in explicit-tag mode), "prompt"
\*        (the checkbox prompt answered with ti choices checked), "writePrefs"
\*        and "writeTrack" (the store file written), "untrack"
\*        (removeTrackedImage called for tag ref), "noImages" (the message
\*        "No images found")
\*   ti   the index of the target the call is made for
\*   ok   whether the engine call succeeded
Event(op, ref, ids, ti, ok) ==
  [op |-> op, ref |-> ref, ids |-> ids, ti |-> ti, ok |-> ok]

\* cleanSpecificTag: normalizedTag
normalizedTag(tag) == IF startsWith(tag, <<"v">>) THEN tag ELSE <<"v">> \o tag

\* cleanSpecificTag: targets
specificTargets(localRepo, registryRepo, tag) ==
  << Ref(localRepo, normalizedTag(tag)), Ref(registryRepo, normalizedTag(tag)) >>

\* a cleanSpecificTag that does not ask the engine whether the targets exist
existingOfUnchecked(images, targets) == targets

\* cleanSpecificTag: existingTargets
existingOf(images, targets) == SelectSeq(targets, LAMBDA t : imageExists(images, t))

\* selectImagesInteractively: checked, for each choice
preChecked(images, excludedTags) ==
  [k \in 1..Len(images) |-> images[k].tag \notin SeqToSet(excludedTags)]

\* a checkbox prompt that returns every choice, whatever the user checked
answerAll(images, chosen) == images

\* the answer of the checkbox prompt: the values of the choices the user left
\* checked, in the order of the choices
answer(images, chosen) ==
  LET keep == SelectSeq([k \in 1..Len(images) |-> k], LAMBDA k : k \in chosen)
  IN [k \in 1..Len(keep) |-> images[keep[k]]]

\* selectImagesInteractively: newExcludedTags
newExcludedTags(images, selected) ==
  LET left == SelectSeq(images,
                LAMBDA img : ~\E k \in 1..Len(selected) : selected[k].tag = img.tag)
  IN [k \in 1..Len(left) |-> left[k].tag]

\* the index of the first target from `from` on that has containers,
\* Len(selected) + 1 when there is none
RECURSIVE nextWithContainers(_, _)
nextWithContainers(selected, from) ==
  IF from > Len(selected) THEN from
  ELSE IF selected[from].containers # <<>> THEN from
  ELSE nextWithContainers(selected, from + 1)

\* a performCleanup whose first loop is missing
containerLoopSkipped(selected, from) ==
  [pc |-> "removeImages", idx |-> 1, containers |-> <<>>]

\* a first loop that ends after the containers of one target
containerLoopOneTarget(selected, from) ==
  IF from = 1 /\ nextWithContainers(selected, 1) <= Len(selected)
  THEN [pc |-> "removeContainers", idx |-> nextWithContainers(selected, 1),
        containers |-> selected[nextWithContainers(selected, 1)].containers]
  ELSE [pc |-> "removeImages", idx |-> 1, containers |-> <<>>]

\* performCleanup, first loop: the next pass from target `from` on, or the
\* second loop when no target from there on has containers
containerLoop(selected, from) ==
  LET next == nextWithContainers(selected, from) IN
  IF next <= Len(selected)
  THEN [pc |-> "removeContainers", idx |-> next, containers |-> selected[next].containers]
  ELSE [pc |-> "removeImages", idx |-> 1, containers |-> <<>>]

\* run: where the command goes with the selection made
enterCleanup(selected) ==
  IF selected = <<>> THEN [pc |-> "noneSelected", idx |-> 1, containers |-> <<>>]
  ELSE containerLoop(selected, 1)

\* a third loop that calls removeTrackedImage for every selected target
untrackAlways(img, removed) == TRUE

\* a third loop that runs only for the images that were removed
untrackWantedIfRemoved(img, removed) == img.isTracked /\ removed

\* performCleanup, third loop: whether removeTrackedImage is called for img
untrackWanted(img, removed) == img.isTracked

\* a --yes run that leaves out the targets whose tag is excluded
yesSelectionWithoutExcluded(images, excludedTags) ==
  SelectSeq(images, LAMBDA img : img.tag \notin SeqToSet(excludedTags))

\* run: selectedImages with --yes; the saved exclusions are not read
yesSelection(images, excludedTags) == images

\* the outcomes `docker rm -f` and `docker rmi` can have
outcomes(exists) == IF exists THEN BOOLEAN ELSE {FALSE}

envUnchanged == UNCHANGED <<config, options, calls, start, procs>>

\* a run that sweeps the Preference Store before it probes the engine
CheckAvailabilityAfterSweep ==
  /\ pc = "start"
  /\ prefsFile' = cleanupStalePreferences(prefsFile)
  /\ \E available \in BOOLEAN : pc' = IF available THEN "sweep" ELSE "failed"
  /\ UNCHANGED <<trackFile, engineImages, engineContainers, imagesToClean,
                 selectedImages, existingTargets, containers, idx, log>>
  /\ envUnchanged

\* run: docker.checkAvailability() throws when docker is not installed or the
\* daemon does not run
CheckAvailability ==
  /\ pc = "start"
  /\ \E available \in BOOLEAN : pc' = IF available THEN "sweep" ELSE "failed"
  /\ UNCHANGED <<prefsFile, trackFile, engineImages, engineContainers, imagesToClean,
                 selectedImages, existingTargets, containers, idx, log>>
  /\ envUnchanged

\* run: CleanPreferencesManager.cleanupStalePreferences()
Sweep ==
  /\ pc = "sweep"
  /\ prefsFile' = cleanupStalePreferences(prefsFile)
  /\ log' = IF staleProjects(prefsFile) # {}
            THEN Append(log, Event("writePrefs", <<>>, <<>>, 0, TRUE))
            ELSE log
  /\ pc' = IF options.tag # <<>> THEN "specificTag" ELSE "gather"
  /\ UNCHANGED <<trackFile, engineImages, engineContainers, imagesToClean,
                 selectedImages, existingTargets, containers, idx>>
  /\ envUnchanged

\* cleanSpecificTag up to its loop: the targets that exist
ResolveTag ==
  /\ pc = "specificTag"
  /\ LET found == existingOf(engineImages,
                    specificTargets(config.localRepo, config.registryRepo, options.tag))
     IN /\ existingTargets' = found
        /\ pc' = IF found = <<>> THEN "noImages" ELSE "tagContainers"
        /\ log' = IF found = <<>>
                  THEN Append(log, Event("noImages", normalizedTag(options.tag), <<>>, 0, TRUE))
                  ELSE log
  /\ idx' = 1
  /\ UNCHANGED <<prefsFile, trackFile, engineImages, engineContainers, imagesToClean,
                 selectedImages, containers>>
  /\ envUnchanged

\* cleanSpecificTag, loop body: listContainersByAncestor(target)
TagListContainers ==
  /\ pc = "tagContainers"
  /\ containers' = listContainersByAncestor(engineContainers, existingTargets[idx])
  /\ log' = Append(log, Event("ps", existingTargets[idx], containers', idx, TRUE))
  /\ pc' = IF containers' # <<>> THEN "tagRemoveContainers" ELSE "tagRemoveImage"
  /\ UNCHANGED <<prefsFile, trackFile, engineImages, engineContainers, imagesToClean,
                 selectedImages, existingTargets, idx>>
  /\ envUnchanged

\* removeContainers: one pass of its loop, `docker rm -f id`, failure ignored
removeOneContainer ==
  /\ containers # <<>>
  /\ \E ok \in outcomes(containerExists(engineContainers, Head(containers))) :
       /\ engineContainers' = IF ok THEN withoutContainer(engineContainers, Head(containers))
                              ELSE engineContainers
       /\ log' = Append(log, Event("rm", <<>>, <<Head(containers)>>, idx, ok))

\* removeImage: `docker rmi ref`, failure ignored
removeOneImage(ref) ==
  \E ok \in outcomes(imageExists(engineImages, ref)) :
    /\ engineImages' = IF ok THEN withoutImage(engineImages, ref) ELSE engineImages
    /\ log' = Append(log, Event("rmi", ref, <<>>, idx, ok))

\* one removeTrackedImage call of the command
untrack(tag) ==
  /\ trackFile' = removeTrackedImage(trackFile, projectPath, config.localRepo, tag)
  /\ log' = log \o <<Event("untrack", tag, <<>>, idx, TRUE)>> \o
            (IF removeTrackedImageWrites(trackFile, projectPath, config.localRepo, tag)
             THEN <<Event("writeTrack", tag, <<>>, idx, TRUE)>> ELSE <<>>)

\* cleanSpecificTag, loop body: docker.removeContainers(containers)
TagRemoveContainer ==
  /\ pc = "tagRemoveContainers"
  /\ removeOneContainer
  /\ containers' = Tail(containers)
  /\ pc' = IF Tail(containers) # <<>> THEN pc ELSE "tagRemoveImage"
  /\ UNCHANGED <<prefsFile, trackFile, engineImages, imagesToClean, selectedImages,
                 existingTargets, idx>>
  /\ envUnchanged

\* cleanSpecificTag, loop body: docker.removeImage(target)
TagRemoveImage ==
  /\ pc = "tagRemoveImage"
  /\ removeOneImage(existingTargets[idx])
  /\ idx' = idx + 1
  /\ pc' = IF idx < Len(existingTargets) THEN "tagContainers" ELSE "tagUntrack"
  /\ UNCHANGED <<prefsFile, trackFile, engineContainers, imagesToClean, selectedImages,
                 existingTargets, containers>>
  /\ envUnchanged

\* cleanSpecificTag: ImageTracker.removeTrackedImage(projectPath, localRepo, normalizedTag)
TagUntrack ==
  /\ pc = "tagUntrack"
  /\ untrack(normalizedTag(options.tag))
  /\ pc' = "done"
  /\ UNCHANGED <<prefsFile, engineImages, engineContainers, imagesToClean, selectedImages,
                 existingTargets, containers, idx>>
  /\ envUnchanged

\* run: gatherAllRelevantImages, the empty check and the --yes selection
Gather ==
  /\ pc = "gather"
  /\ imagesToClean' = gatherAllRelevantImages(trackFile, engineImages, engineContainers,
                                              config.localRepo, config.registryRepo)
  /\ IF imagesToClean' = <<>>
     THEN /\ pc' = "noImages"
          /\ log' = Append(log, Event("noImages", <<>>, <<>>, 0, TRUE))
          /\ UNCHANGED <<selectedImages, idx, containers>>
     ELSE IF options.yes
     THEN /\ selectedImages' =
               yesSelection(imagesToClean',
                            getExcludedTags(prefsFile, projectPath, config.localRepo))
          /\ pc' = enterCleanup(selectedImages').pc
          /\ idx' = enterCleanup(selectedImages').idx
          /\ containers' = enterCleanup(selectedImages').containers
          /\ log' = log
     ELSE /\ pc' = "select"
          /\ UNCHANGED <<selectedImages, idx, containers, log>>
  /\ UNCHANGED <<prefsFile, trackFile, engineImages, engineContainers, existingTargets>>
  /\ envUnchanged

\* selectImagesInteractively: the prompt is answered, the tags of the targets
\* left unchecked are saved, the selection is returned to run
Select ==
  /\ pc = "select"
  /\ \E chosen \in SUBSET (1..Len(imagesToClean)) :
       LET selected == answer(imagesToClean, chosen)
           next == enterCleanup(selected)
       IN /\ selectedImages' = selected
          /\ prefsFile' = saveExcludedTags(prefsFile, projectPath, config.localRepo,
                                           newExcludedTags(imagesToClean, selected))
          /\ log' = log \o << Event("prompt", <<>>, <<>>, Cardinality(chosen), TRUE),
                             Event("writePrefs", <<>>, <<>>, 0, TRUE) >>
          /\ pc' = next.pc
          /\ idx' = next.idx
          /\ containers' = next.containers
  /\ UNCHANGED <<trackFile, engineImages, engineContainers, imagesToClean, existingTargets>>
  /\ envUnchanged

\* performCleanup, first loop: docker.removeContainers(img.containers)
RemoveContainer ==
  /\ pc = "removeContainers"
  /\ removeOneContainer
  /\ LET next == IF Tail(containers) # <<>>
                 THEN [pc |-> pc, idx |-> idx, containers |-> Tail(containers)]
                 ELSE containerLoop(selectedImages, idx + 1)
     IN /\ pc' = next.pc
        /\ idx' = next.idx
        /\ containers' = next.containers
  /\ UNCHANGED <<prefsFile, trackFile, engineImages, imagesToClean, selectedImages,
                 existingTargets>>
  /\ envUnchanged

\* a second loop that a failing removeImage ends
imageLoopAbortOnFailure(selected, i, ok) ==
  IF ~ok THEN [pc |-> "failed", idx |-> i]
  ELSE IF i < Len(selected) THEN [pc |-> "removeImages", idx |-> i + 1]
  ELSE [pc |-> "updateTracking", idx |-> 1]

\* performCleanup, second loop: where the command goes after removeImage for
\* target i returned; removeImage swallows the failure of `docker rmi`
imageLoop(selected, i, ok) ==
  IF i < Len(selected) THEN [pc |-> "removeImages", idx |-> i + 1]
  ELSE [pc |-> "updateTracking", idx |-> 1]

\* performCleanup, second loop: docker.removeImage(img.image)
RemoveImage ==
  /\ pc = "removeImages"
  /\ removeOneImage(selectedImages[idx].image)
  /\ idx' = imageLoop(selectedImages, idx, log'[Len(log')].ok).idx
  /\ pc' = imageLoop(selectedImages, idx, log'[Len(log')].ok).pc
  /\ UNCHANGED <<prefsFile, trackFile, engineContainers, imagesToClean, selectedImages,
                 existingTargets, containers>>
  /\ envUnchanged

\* whether the removeImage call for target ti of the selection succeeded
removedOk(ti) == \E k \in 1..Len(log) : log[k].op = "rmi" /\ log[k].ti = ti /\ log[k].ok

\* performCleanup, third loop: removeTrackedImage for the tracked targets
UpdateTracking ==
  /\ pc = "updateTracking"
  /\ IF untrackWanted(selectedImages[idx], removedOk(idx))
     THEN untrack(selectedImages[idx].tag)
     ELSE UNCHANGED <<trackFile, log>>
  /\ idx' = idx + 1
  /\ pc' = IF idx < Len(selectedImages) THEN pc ELSE "done"
  /\ UNCHANGED <<prefsFile, engineImages, engineContainers, imagesToClean, selectedImages,
                 existingTargets, containers>>
  /\ envUnchanged

----------------------------------------------------------------------------
(* Initial states *)

\* the subsequence of s at the indices in S
SubseqAt(s, S) ==
  LET keep == SelectSeq([k \in 1..Len(s) |-> k], LAMBDA k : k \in S)
  IN [k \in 1..Len(keep) |-> s[keep[k]]]

\* every subsequence of s
Subseqs(s) == {SubseqAt(s, S) : S \in SUBSET (1..Len(s))}

\* the repositories of a configuration
reposOf(cfg) ==
  IF cfg.localRepo = cfg.registryRepo THEN <<cfg.localRepo>>
  ELSE <<cfg.localRepo, cfg.registryRepo>>

\* an image of the engine; `docker images` prints CreatedSince as "2 days ago"
EngineImage(repo, tag) ==
  [repository |-> repo, tag |-> tag, size |-> "10MB", created |-> "2 days ago"]

\* the images the engine may hold for a configuration: every repository with
\* every tag, listed tag by tag
ImageUniverse(cfg) ==
  [k \in 1..(MaxTag * Len(reposOf(cfg))) |->
     EngineImage(reposOf(cfg)[((k - 1) % Len(reposOf(cfg))) + 1],
                 TagN(((k - 1) \div Len(reposOf(cfg))) + 1))]

\* the references of a sequence of engine images
refsOf(images) ==
  {Ref(images[k].repository, images[k].tag) : k \in 1..Len(images)}

\* the sets of references one container can stem from: references of one image,
\* that is, the same tag under the local and the registry name
AncestorSets(images) ==
  {A \in SUBSET refsOf(images) :
     /\ A # {}
     /\ \E t \in Tags : \A r \in A : \E k \in 1..Len(images) :
          r = Ref(images[k].repository, images[k].tag) /\ images[k].tag = t}

\* the containers the engine may hold: each of c1 .. cMaxContainers absent or
\* created from one of the images
ContainerChoices(images) ==
  LET ids == [n \in 1..MaxContainers |-> "c" \o Digit[n]]
      perId == [n \in 1..MaxContainers |->
                  {<<>>} \cup {<<[id |-> ids[n], ancestors |-> A]>> : A \in AncestorSets(images)}]
      RECURSIVE build(_)
      build(n) == IF n = 0 THEN {<<>>}
                  ELSE {r \o c : r \in build(n - 1), c \in perId[n]}
  IN build(MaxContainers)

\* a store file that is absent or cannot be parsed
Unreadable == [ok |-> FALSE, data |-> <<>>]

\* the entry trackImage writes for a build of tag vn of this project, built on day n
BuiltEntry(cfg, n, size) ==
  [key |-> trackKey(projectPath, cfg.localRepo, TagN(n)),
   image |-> TrackedImage(projectPath, cfg.localRepo, TagN(n), IsoStamp[n], size)]

\* the entry of a build of another project
OtherEntry(cfg) ==
  [key |-> trackKey(OtherPath, cfg.localRepo, TagN(1)),
   image |-> TrackedImage(OtherPath, cfg.localRepo, TagN(1), IsoStamp[1], "9MB")]

\* tracked-images.json before the command: unreadable, or the builds of some of
\* the tags of this project and a build of another project
TrackFiles(cfg) ==
  {Unreadable} \cup
  {[ok |-> TRUE,
    data |-> SubseqAt([n \in 1..MaxTag |-> BuiltEntry(cfg, n, "9MB")], S)
             \o <<OtherEntry(cfg)>>] : S \in SUBSET (1..MaxTag)}

\* clean-preferences.json with the given exclusions of this project, and
\* with the exclusions of a project that is gone if `gone`
PrefsFile(cfg, excluded, gone) ==
  LET own == IF excluded = <<>> THEN EmptyObject
             ELSE Put(EmptyObject, projectPath, Put(EmptyObject, cfg.localRepo, excluded))
  IN [ok |-> TRUE,
      data |-> IF gone
               THEN Put(own, GonePath, Put(EmptyObject, cfg.localRepo, <<TagN(1)>>))
               ELSE own]

\* clean-preferences.json before a run for one tag
PrefsFilesUnread(cfg) ==
  {Unreadable} \cup {PrefsFile(cfg, <<>>, gone) : gone \in BOOLEAN}

\* clean-preferences.json before a run for all tags
PrefsFilesRead(cfg) ==
  {Unreadable} \cup
  {PrefsFile(cfg, excluded, gone) :
     excluded \in Subseqs([n \in 1..MaxTag |-> TagN(n)]), gone \in BOOLEAN}

\* the values of --tag: the first tag, with and without its v
TagArguments == {TagN(1), <<Digit[1]>>}

\* the command line of clean, with the store the run starts from
InitCommand ==
  \/ /\ options \in [tag : TagArguments, yes : BOOLEAN]
     /\ prefsFile \in PrefsFilesUnread(config)
  \/ /\ options \in [tag : {<<>>}, yes : BOOLEAN]
     /\ prefsFile \in PrefsFilesRead(config)

\* the state in which `prim clean` starts
Init ==
  /\ config \in Configs
  /\ engineImages \in Subseqs(ImageUniverse(config))
  /\ engineContainers \in ContainerChoices(engineImages)
  /\ trackFile \in TrackFiles(config)
  /\ InitCommand
  /\ pc = "start"
  /\ imagesToClean = <<>>
  /\ selectedImages = <<>>
  /\ existingTargets = <<>>
  /\ containers = <<>>
  /\ idx = 1
  /\ log = <<>>
  /\ calls = <<>>
  /\ start = [trackFile |-> trackFile, prefsFile |-> prefsFile,
              engineImages |-> engineImages, engineContainers |-> engineContainers]
  /\ procs = <<>>

Next ==
  \/ CheckAvailability
  \/ Sweep
  \/ ResolveTag
  \/ TagListContainers
  \/ TagRemoveContainer
  \/ TagRemoveImage
  \/ TagUntrack
  \/ Gather
  \/ Select
  \/ RemoveContainer
  \/ RemoveImage
  \/ UpdateTracking

\* one run of `prim clean`
Spec == Init /\ [][Next]_vars

----------------------------------------------------------------------------
(* The reconciliation on its own: gatherAllRelevantImages applied to one      *)
(* tracked set and one engine state                                          *)

\* a tracked entry as JSON.parse may return it: size and builtAt may be missing
LooseEntry(cfg, n, builtAt, size) ==
  [key |-> trackKey(projectPath, cfg.localRepo, TagN(n)),
   image |-> TrackedImage(projectPath, cfg.localRepo, TagN(n), builtAt, size)]

\* the entries of tag vn the reconciliation is tried on
LooseEntries(cfg, n) ==
  {<<>>} \cup
  {<<LooseEntry(cfg, n, builtAt, size)>> :
     builtAt \in {IsoStamp[1], IsoStamp[2], undefined}, size \in {"9MB", undefined}}

\* the tracked sets the reconciliation is tried on
ReconTrackFiles(cfg) ==
  LET RECURSIVE build(_)
      build(n) == IF n = 0 THEN {<<>>}
                  ELSE {r \o e : r \in build(n - 1), e \in LooseEntries(cfg, n)}
  IN {[ok |-> TRUE, data |-> d \o <<OtherEntry(cfg)>>] : d \in build(MaxTag)}

\* the engine states the reconciliation is tried on: some of the tagged images,
\* with or without an untagged image of the local repository
ReconEngineImages(cfg) ==
  {tagged \o untagged :
     tagged \in Subseqs(ImageUniverse(cfg)),
     untagged \in {<<>>, <<EngineImage(cfg.localRepo, NoneTag)>>}}

InitRecon ==
  /\ config \in Configs
  /\ engineImages \in ReconEngineImages(config)
  /\ engineContainers \in ContainerChoices(engineImages)
  /\ trackFile \in ReconTrackFiles(config)
  /\ options = [tag |-> <<>>, yes |-> FALSE]
  /\ prefsFile = Unreadable
  /\ pc = "gather"
  /\ imagesToClean = <<>>
  /\ selectedImages = <<>>
  /\ existingTargets = <<>>
  /\ containers = <<>>
  /\ idx = 1
  /\ log = <<>>
  /\ calls = <<>>
  /\ start = [trackFile |-> trackFile, prefsFile |-> prefsFile,
              engineImages |-> engineImages, engineContainers |-> engineContainers]
  /\ procs = <<>>

\* gatherAllRelevantImages returns
Reconcile ==
  /\ pc = "gather"
  /\ imagesToClean' = gatherAllRelevantImages(trackFile, engineImages, engineContainers,
                                              config.localRepo, config.registryRepo)
  /\ pc' = "reconciled"
  /\ UNCHANGED <<prefsFile, trackFile, engineImages, engineContainers, selectedImages,
                 existingTargets, containers, idx, log>>
  /\ envUnchanged

\* one call of gatherAllRelevantImages
SpecRecon == InitRecon /\ [][Reconcile]_vars

----------------------------------------------------------------------------
(* The Preference Store on its own: calls of CleanPreferencesManager          *)

\* the project paths and image names the store is called with
StorePaths == {projectPath, OtherPath}

StoreImageNames == {<<"a">>, <<"b">>}

\* the tag lists saveExcludedTags is called with
StoreTagLists == Subseqs(<<TagN(1), TagN(2)>>)

\* clean-preferences.json before the calls
StorePrefsFiles(cfg) ==
  {Unreadable, PrefsFile(cfg, <<>>, TRUE), PrefsFile(cfg, <<TagN(1)>>, FALSE)}

\* a call of the store API: its arguments and, for getExcludedTags, its result
Call(op, p, i, tags) == [op |-> op, p |-> p, i |-> i, tags |-> tags]

InitStore ==
  /\ config = [localRepo |-> <<"a">>, registryRepo |-> <<"r", "/", "a">>]
  /\ prefsFile \in StorePrefsFiles(config)
  /\ trackFile = Unreadable
  /\ engineImages = <<>>
  /\ engineContainers = <<>>
  /\ options = [tag |-> <<>>, yes |-> FALSE]
  /\ pc = "idle"
  /\ imagesToClean = <<>>
  /\ selectedImages = <<>>
  /\ existingTargets = <<>>
  /\ containers = <<>>
  /\ idx = 1
  /\ log = <<>>
  /\ calls = <<>>
  /\ start = [trackFile |-> trackFile, prefsFile |-> prefsFile,
              engineImages |-> engineImages, engineContainers |-> engineContainers]
  /\ procs = <<>>

storeUnchanged ==
  UNCHANGED <<config, options, trackFile, engineImages, engineContainers, pc,
              imagesToClean, selectedImages, existingTargets, containers, idx, log, start,
              procs>>

\* CleanPreferencesManager.saveExcludedTags(p, i, tags)
SaveExcludedTags ==
  /\ Len(calls) < MaxCalls
  /\ \E p \in StorePaths, i \in StoreImageNames, tags \in StoreTagLists :
       /\ prefsFile' = saveExcludedTags(prefsFile, p, i, tags)
       /\ calls' = Append(calls, Call("saveExcludedTags", p, i, tags))
  /\ storeUnchanged

\* CleanPreferencesManager.getExcludedTags(p, i)
GetExcludedTags ==
  /\ Len(calls) < MaxCalls
  /\ \E p \in StorePaths, i \in StoreImageNames :
       calls' = Append(calls, Call("getExcludedTags", p, i, getExcludedTags(prefsFile, p, i)))
  /\ UNCHANGED prefsFile
  /\ storeUnchanged

\* CleanPreferencesManager.clearPreferences(p, i)
ClearPreferences ==
  /\ Len(calls) < MaxCalls
  /\ \E p \in StorePaths, i \in StoreImageNames :
       /\ prefsFile' = clearPreferences(prefsFile, p, i)
       /\ calls' = Append(calls, Call("clearPreferences", p, i, <<>>))
  /\ storeUnchanged

\* CleanPreferencesManager.cleanupStalePreferences()
CleanupStalePreferences ==
  /\ Len(calls) < MaxCalls
  /\ prefsFile' = cleanupStalePreferences(prefsFile)
  /\ calls' = Append(calls, Call("cleanupStalePreferences", <<>>, <<>>, <<>>))
  /\ storeUnchanged

NextStore ==
  \/ SaveExcludedTags
  \/ GetExcludedTags
  \/ ClearPreferences
  \/ CleanupStalePreferences

\* any MaxCalls calls of the Preference Store
SpecStore == InitStore /\ [][NextStore]_vars

----------------------------------------------------------------------------
(* The Tracking Store on its own: any MaxCalls calls of its API *)

\* the arguments the calls are made with
TrackPaths == {projectPath, OtherPath}

TrackImageNames == {<<"a">>}

TrackTags == {TagN(1), TagN(2)}

\* the images trackImage is called with: builds of day 1 and of day 3
TrackImages ==
  {TrackedImage(p, n, t, builtAt, "9MB") :
     p \in TrackPaths, n \in TrackImageNames, t \in TrackTags,
     builtAt \in {IsoStamp[1], IsoStamp[3]}}

\* the times cleanupStaleImages runs at: 7 days after day 1 to the millisecond,
\* one millisecond later, and 7 days after day 3 to the millisecond
TrackNows == {8 * msPerDay, 8 * msPerDay + 1, 10 * msPerDay}

\* tracked-images.json before the calls
TrackStoreFiles(cfg) ==
  { Unreadable,
    [ok |-> TRUE, data |-> <<BuiltEntry(cfg, 1, "9MB"), OtherEntry(cfg)>>],
    [ok |-> TRUE, data |-> <<BuiltEntry(cfg, 2, "9MB"), BuiltEntry(cfg, 1, "9MB")>>] }

\* a call of the store API: its arguments, the file before it and whether it
\* wrote the file
TrackCall(op, image, key, now, before, wrote) ==
  [op |-> op, image |-> image, key |-> key, now |-> now, before |-> before, wrote |-> wrote]

InitTrack ==
  /\ config = [localRepo |-> <<"a">>, registryRepo |-> <<"r", "/", "a">>]
  /\ trackFile \in TrackStoreFiles(config)
  /\ prefsFile = Unreadable
  /\ engineImages = <<>>
  /\ engineContainers = <<>>
  /\ options = [tag |-> <<>>, yes |-> FALSE]
  /\ pc = "idle"
  /\ imagesToClean = <<>>
  /\ selectedImages = <<>>
  /\ existingTargets = <<>>
  /\ containers = <<>>
  /\ idx = 1
  /\ log = <<>>
  /\ calls = <<>>
  /\ start = [trackFile |-> trackFile, prefsFile |-> prefsFile,
              engineImages |-> engineImages, engineContainers |-> engineContainers]
  /\ procs = <<>>

trackUnchanged ==
  UNCHANGED <<config, options, prefsFile, engineImages, engineContainers, pc,
              imagesToClean, selectedImages, existingTargets, containers, idx, log, start,
              procs>>

\* ImageTracker.trackImage(image)
TrackImage ==
  /\ Len(calls) < MaxCalls
  /\ \E image \in TrackImages :
       /\ trackFile' = trackImage(trackFile, image)
       /\ calls' = Append(calls,
            TrackCall("trackImage", image,
                      trackKey(image.projectPath, image.imageName, image.tag),
                      0, trackFile, TRUE))
  /\ trackUnchanged

\* ImageTracker.removeTrackedImage(p, n, t)
RemoveTrackedImage ==
  /\ Len(calls) < MaxCalls
  /\ \E p \in TrackPaths, n \in TrackImageNames, t \in TrackTags :
       /\ trackFile' = removeTrackedImage(trackFile, p, n, t)
       /\ calls' = Append(calls,
            TrackCall("removeTrackedImage", <<>>, trackKey(p, n, t), 0, trackFile,
                      removeTrackedImageWrites(trackFile, p, n, t)))
  /\ trackUnchanged

\* ImageTracker.cleanupStaleImages() at time now
CleanupStaleImages ==
  /\ Len(calls) < MaxCalls
  /\ \E now \in TrackNows :
       /\ trackFile' = cleanupStaleImages(trackFile, now)
       /\ calls' = Append(calls,
            TrackCall("cleanupStaleImages", <<>>, <<>>, now, trackFile,
                      cleanupStaleImagesWrites(trackFile, now)))
  /\ trackUnchanged

NextTrack ==
  \/ TrackImage
  \/ RemoveTrackedImage
  \/ CleanupStaleImages

\* any MaxCalls calls of the Tracking Store
SpecTrack == InitTrack /\ [][NextTrack]_vars

----------------------------------------------------------------------------
(* Calls of both stores whose read of the store file may fail, for projects   *)
(* and images whose names share a prefix up to a ':'                          *)

\* a project directory whose name contains a ':'
ColonPath == projectPath \o Colon \o <<"a">>

KeyPaths == {projectPath, ColonPath}

KeyImageNames == {<<"a">>, <<"b">>}

\* the builds trackImage is called with
KeyImages ==
  {TrackedImage(p, n, TagN(1), IsoStamp[3], "9MB") : p \in KeyPaths, n \in KeyImageNames}

\* what loadTrackedImages and loadPreferences make of the file: readFile or
\* JSON.parse may throw although the file holds entries (the file is being
\* rewritten, no descriptor is free), and the catch turns that into {}
readOutcomes(file) == {file, Unreadable}

\* a call: its arguments, what its read gave, the store file before and after
\* it, and its result
KeyCall(op, p, n, arg, read, before, after, result) ==
  [op |-> op, p |-> p, n |-> n, arg |-> arg, read |-> read, before |-> before,
   after |-> after, result |-> result]

InitKeys ==
  /\ config = [localRepo |-> <<"a">>, registryRepo |-> <<"r", "/", "a">>]
  /\ trackFile \in {Unreadable,
                    [ok |-> TRUE, data |-> <<BuiltEntry(config, 1, "9MB"), OtherEntry(config)>>]}
  /\ prefsFile \in {Unreadable, PrefsFile(config, <<TagN(1)>>, TRUE)}
  /\ engineImages = <<>>
  /\ engineContainers = <<>>
  /\ options = [tag |-> <<>>, yes |-> FALSE]
  /\ pc = "idle"
  /\ imagesToClean = <<>>
  /\ selectedImages = <<>>
  /\ existingTargets = <<>>
  /\ containers = <<>>
  /\ idx = 1
  /\ log = <<>>
  /\ calls = <<>>
  /\ start = [trackFile |-> trackFile, prefsFile |-> prefsFile,
              engineImages |-> engineImages, engineContainers |-> engineContainers]
  /\ procs = <<>>

keysUnchanged ==
  UNCHANGED <<config, options, engineImages, engineContainers, pc, imagesToClean,
              selectedImages, existingTargets, containers, idx, log, start, procs>>

\* ImageTracker.trackImage(image): loadTrackedImages, then the write
KeyTrackImage ==
  /\ Len(calls) < MaxCalls
  /\ \E image \in KeyImages, read \in readOutcomes(trackFile) :
       /\ trackFile' = trackImage(read, image)
       /\ calls' = Append(calls,
            KeyCall("trackImage", image.projectPath, image.imageName, image.tag, read,
                    trackFile, trackFile', <<>>))
  /\ UNCHANGED prefsFile
  /\ keysUnchanged

\* CleanPreferencesManager.saveExcludedTags(p, n, tags): loadPreferences, then
\* the write
KeySaveExcludedTags ==
  /\ Len(calls) < MaxCalls
  /\ \E p \in KeyPaths, n \in KeyImageNames, tags \in {<<>>, <<TagN(2)>>},
        read \in readOutcomes(prefsFile) :
       /\ prefsFile' = saveExcludedTags(read, p, n, tags)
       /\ calls' = Append(calls,
            KeyCall("saveExcludedTags", p, n, tags, read, prefsFile, prefsFile', <<>>))
  /\ UNCHANGED trackFile
  /\ keysUnchanged

\* ImageTracker.getTrackedImages(p, n)
KeyGetTrackedImages ==
  /\ Len(calls) < MaxCalls
  /\ \E p \in KeyPaths, n \in KeyImageNames :
       calls' = Append(calls,
         KeyCall("getTrackedImages", p, n, <<>>, trackFile, trackFile, trackFile,
                 getTrackedImages(trackFile, p, n)))
  /\ UNCHANGED <<trackFile, prefsFile>>
  /\ keysUnchanged

NextKeys ==
  \/ KeyTrackImage
  \/ KeySaveExcludedTags
  \/ KeyGetTrackedImages

\* any MaxCalls calls of trackImage, saveExcludedTags and getTrackedImages
SpecKeys == InitKeys /\ [][NextKeys]_vars


----------------------------------------------------------------------------
(* Two invocations of the tool at once: each is inside trackImage or          *)
(* saveExcludedTags, which read the store file, await, and write it           *)

\* an invocation inside trackImage(image); at is "called", "loaded" (the file
\* is read, the write is pending) or "returned"
TrackProc(image) ==
  [op |-> "trackImage", image |-> image, p |-> <<>>, i |-> <<>>, tags |-> <<>>,
   at |-> "called", snapshot |-> Unreadable]

\* an invocation inside saveExcludedTags(p, i, tags)
SaveProc(p, i, tags) ==
  [op |-> "saveExcludedTags", image |-> <<>>, p |-> p, i |-> i, tags |-> tags,
   at |-> "called", snapshot |-> Unreadable]

\* what the first invocation does: it tracks a build of a:v1 on day 3 or
\* excludes v2 for image a
FirstProcs ==
  { TrackProc(TrackedImage(projectPath, <<"a">>, TagN(1), IsoStamp[3], "9MB")),
    SaveProc(projectPath, <<"a">>, <<TagN(2)>>) }

\* what the second does: it tracks a build of a:v2 on day 3 or excludes v2 for
\* image b
SecondProcs ==
  { TrackProc(TrackedImage(projectPath, <<"a">>, TagN(2), IsoStamp[3], "9MB")),
    SaveProc(projectPath, <<"b">>, <<TagN(2)>>) }

\* the store file an invocation works on
storeOf(proc) == IF proc.op = "trackImage" THEN trackFile ELSE prefsFile

\* a store call that reads the file again when it writes
writeBackReread(current, proc) ==
  IF proc.op = "trackImage" THEN trackImage(current, proc.image)
  ELSE saveExcludedTags(current, proc.p, proc.i, proc.tags)

\* trackImage and saveExcludedTags from the assignment on: the object that was
\* read is modified and written over the file, whatever the file holds by now
writeBack(current, proc) ==
  IF proc.op = "trackImage" THEN trackImage(proc.snapshot, proc.image)
  ELSE saveExcludedTags(proc.snapshot, proc.p, proc.i, proc.tags)

InitRace ==
  /\ config = [localRepo |-> <<"a">>, registryRepo |-> <<"r", "/", "a">>]
  /\ trackFile \in TrackStoreFiles(config)
  /\ prefsFile \in StorePrefsFiles(config)
  /\ engineImages = <<>>
  /\ engineContainers = <<>>
  /\ options = [tag |-> <<>>, yes |-> FALSE]
  /\ pc = "racing"
  /\ imagesToClean = <<>>
  /\ selectedImages = <<>>
  /\ existingTargets = <<>>
  /\ containers = <<>>
  /\ idx = 1
  /\ log = <<>>
  /\ calls = <<>>
  /\ start = [trackFile |-> trackFile, prefsFile |-> prefsFile,
              engineImages |-> engineImages, engineContainers |-> engineContainers]
  /\ \E first \in FirstProcs, second \in SecondProcs : procs = <<first, second>>

raceUnchanged ==
  UNCHANGED <<config, options, engineImages, engineContainers, pc, imagesToClean,
              selectedImages, existingTargets, containers, idx, calls, start>>

\* trackImage / saveExcludedTags of invocation n: await loadTrackedImages() /
\* await loadPreferences()
RaceLoad ==
  \E n \in 1..Len(procs) :
    /\ procs[n].at = "called"
    /\ procs' = [procs EXCEPT ![n].at = "loaded", ![n].snapshot = storeOf(procs[n])]
    /\ log' = Append(log, Event("load", <<>>, <<>>, n, TRUE))
    /\ UNCHANGED <<trackFile, prefsFile>>
    /\ raceUnchanged

\* trackImage / saveExcludedTags of invocation n: await fs.writeFile(...)
RaceWrite ==
  \E n \in 1..Len(procs) :
    /\ procs[n].at = "loaded"
    /\ procs' = [procs EXCEPT ![n].at = "returned"]
    /\ IF procs[n].op = "trackImage"
       THEN /\ trackFile' = writeBack(trackFile, procs[n])
            /\ UNCHANGED prefsFile
       ELSE /\ prefsFile' = writeBack(prefsFile, procs[n])
            /\ UNCHANGED trackFile
    /\ log' = Append(log, Event("write", <<>>, <<>>, n, TRUE))
    /\ raceUnchanged

NextRace ==
  \/ RaceLoad
  \/ RaceWrite

\* two invocations, their reads and writes in any order
SpecRace == InitRace /\ [][NextRace]_vars

----------------------------------------------------------------------------
(* Tag generation: TagGenerator *)

\* the character of a decimal digit
digitChar(d) == IF d = 0 THEN "0" ELSE Digit[d]

\* Number.prototype.toString of a natural number
RECURSIVE toString(_)
toString(n) ==
  IF n < 10 THEN <<digitChar(n)>>
  ELSE Append(toString(n \div 10), digitChar(n % 10))

\* String.prototype.padStart with a one-character filler
RECURSIVE padStart(_, _, _)
padStart(s, n, c) == IF Len(s) >= n THEN s ELSE padStart(<<c>> \o s, n, c)

\* fromTimestamp: pad
pad(n) == padStart(toString(n), 2, "0")

\* String.prototype.trim, for the line ends git prints
RECURSIVE trim(_)
trim(s) ==
  IF s = <<>> THEN s
  ELSE IF Head(s) \in {" ", "\n"} THEN trim(Tail(s))
  ELSE IF s[Len(s)] \in {" ", "\n"} THEN trim(SubSeq(s, 1, Len(s) - 1))
  ELSE s

\* a Date by its UTC fields; month is getUTCMonth(), 0 for January
UtcDate(year, month, date, hours, minutes, seconds) ==
  [year |-> year, month |-> month, date |-> date,
   hours |-> hours, minutes |-> minutes, seconds |-> seconds]

\* TagGenerator.fromTimestamp
fromTimestamp(d) ==
  toString(d.year) \o pad(d.month + 1) \o pad(d.date) \o <<"-">> \o
  pad(d.hours) \o pad(d.minutes) \o pad(d.seconds)

\* TagGenerator.fromGitCommit; git.sha is the outcome of `git rev-parse --short HEAD`
fromGitCommit(git, now) ==
  IF git.sha.ok THEN trim(git.sha.out) ELSE fromTimestamp(now)

\* TagGenerator.fromGitTag; git.describe is the outcome of
\* `git describe --tags --abbrev=0`
fromGitTag(git, now) ==
  IF git.describe.ok THEN trim(git.describe.out) ELSE fromGitCommit(git, now)

\* TagGenerator.fromSemver; pkgVersion is the version of package.json, empty
\* when the file is absent, unparseable or has no version
fromSemver(explicit, pkgVersion, now) ==
  IF explicit # <<>> THEN explicit
  ELSE IF pkgVersion # <<>> THEN pkgVersion
  ELSE fromTimestamp(now)

\* TagGenerator.generate: the tag returned, or threw for the Error of the
\* manual strategy
generate(strategy, opts, git, pkgVersion, now) ==
  CASE strategy = "manual" ->
         IF opts.explicitTag = <<>> THEN [threw |-> TRUE, tag |-> <<>>]
         ELSE [threw |-> FALSE, tag |-> opts.explicitTag]
    [] strategy = "git_commit" -> [threw |-> FALSE, tag |-> fromGitCommit(git, now)]
    [] strategy = "git_tag" -> [threw |-> FALSE, tag |-> fromGitTag(git, now)]
    [] strategy = "semver" ->
         [threw |-> FALSE, tag |-> fromSemver(opts.projectVersion, pkgVersion, now)]
    [] OTHER -> [threw |-> FALSE, tag |-> fromTimestamp(now)]

\* TagStrategy
TagStrategies == {"timestamp", "git_commit", "git_tag", "manual", "semver"}

\* the values of --tag and of project.version
ExplicitTags == {<<>>, <<"v", "1">>, <<"1">>}

ProjectVersions == {<<>>, <<"1", ".", "2", ".", "3">>, <<"v", "1", ".", "2", ".", "3">>}

\* what git answers: no repository, or a short commit hash; no tag, or a tag
\* with or without v
GitStates ==
  [sha : {[ok |-> FALSE, out |-> <<>>],
          [ok |-> TRUE, out |-> <<"a", "b", "c", "1", "2", "3", "\n">>]},
   describe : {[ok |-> FALSE, out |-> <<>>],
               [ok |-> TRUE, out |-> <<"v", "1", ".", "0", ".", "0", "\n">>],
               [ok |-> TRUE, out |-> <<"1", ".", "0", ".", "0", "\n">>]}]

\* the version of package.json
PackageVersions == {<<>>, <<"2", ".", "0", ".", "0">>}

\* the times of the call: 2025-08-09T12:34:56Z and 2026-01-02T03:04:05Z
TagNows == {UtcDate(2025, 7, 9, 12, 34, 56), UtcDate(2026, 0, 2, 3, 4, 5)}

InitTag ==
  /\ config = [localRepo |-> <<"a">>, registryRepo |-> <<"r", "/", "a">>]
  /\ trackFile = Unreadable
  /\ prefsFile = Unreadable
  /\ engineImages = <<>>
  /\ engineContainers = <<>>
  /\ options = [tag |-> <<>>, yes |-> FALSE]
  /\ pc = "tag"
  /\ imagesToClean = <<>>
  /\ selectedImages = <<>>
  /\ existingTargets = <<>>
  /\ containers = <<>>
  /\ idx = 1
  /\ log = <<>>
  /\ \E strategy \in TagStrategies, explicitTag \in ExplicitTags,
        projectVersion \in ProjectVersions, git \in GitStates,
        pkgVersion \in PackageVersions, now \in TagNows :
       calls = << [op |-> "generate", strategy |-> strategy,
                   opts |-> [explicitTag |-> explicitTag, projectVersion |-> projectVersion],
                   git |-> git, pkgVersion |-> pkgVersion, now |-> now,
                   result |-> [threw |-> FALSE, tag |-> <<>>]] >>
  /\ start = [trackFile |-> trackFile, prefsFile |-> prefsFile,
              engineImages |-> engineImages, engineContainers |-> engineContainers]
  /\ procs = <<>>

\* one call of TagGenerator.generate
Generate ==
  /\ pc = "tag"
  /\ calls' = << [calls[1] EXCEPT !.result =
                   generate(calls[1].strategy, calls[1].opts, calls[1].git,
                            calls[1].pkgVersion, calls[1].now)] >>
  /\ pc' = "tagged"
  /\ UNCHANGED <<config, options, prefsFile, trackFile, engineImages, engineContainers,
                 imagesToClean, selectedImages, existingTargets, containers, idx, log,
                 start, procs>>

\* TagGenerator.generate on every input
SpecTag == InitTag /\ [][Generate]_vars

----------------------------------------------------------------------------
(* The deploy command: DeployCommand.run up to the build. `options` holds     *)
(* the command line of deploy, calls[1] the tag strategy of the               *)
(* configuration and the tag the run resolves.                                *)

\* the value of the menu entry 'Build new image with generated tag'
BuildNew == <<"__build_new__">>

\* the menu of previously built images: the five newest and the entry to build anew
menuChoices(trackedImages) ==
  [k \in 1..(IF Len(trackedImages) < 5 THEN Len(trackedImages) ELSE 5) |->
     trackedImages[k].tag] \o <<BuildNew>>

\* deploy: whether the menu of previously built images is presented
presentsMenu(opts, trackedImages) ==
  /\ opts.tag = <<>>
  /\ ~opts.skipBuild
  /\ Len(trackedImages) > 0
  /\ ~opts.force

\* the tag TagGenerator.generate gives deploy, which passes no explicitTag;
\* the project is not a git repository and has no package.json
generatedTag(deploy) ==
  generate(deploy.strategy, [explicitTag |-> <<>>, projectVersion |-> deploy.projectVersion],
           [sha |-> [ok |-> FALSE, out |-> <<>>], describe |-> [ok |-> FALSE, out |-> <<>>]],
           <<>>, deploy.now)

\* the command lines of deploy
DeployOptions ==
  [tag : {<<>>, TagN(1)}, skipBuild : BOOLEAN, force : BOOLEAN, forceBuild : BOOLEAN]

InitDeploy ==
  /\ config \in Configs
  /\ trackFile \in TrackFiles(config)
  /\ prefsFile = Unreadable
  /\ engineImages = <<>>
  /\ engineContainers = <<>>
  /\ options \in DeployOptions
  /\ pc = "deploy"
  /\ imagesToClean = <<>>
  /\ selectedImages = <<>>
  /\ existingTargets = <<>>
  /\ containers = <<>>
  /\ idx = 1
  /\ log = <<>>
  /\ \E strategy \in {"timestamp", "semver", "manual"} :
       calls = << [op |-> "deploy", strategy |-> strategy,
                   projectVersion |-> <<"1", ".", "2", ".", "3">>,
                   now |-> UtcDate(2025, 7, 9, 12, 34, 56), tag |-> <<>>] >>
  /\ start = [trackFile |-> trackFile, prefsFile |-> prefsFile,
              engineImages |-> engineImages, engineContainers |-> engineContainers]
  /\ procs = <<>>

deployUnchanged ==
  UNCHANGED <<config, options, prefsFile, engineContainers, imagesToClean, selectedImages,
              existingTargets, containers, idx, start, procs>>

\* run: checkAvailability and the DNS check, which --force overrides
DeployCheck ==
  /\ pc = "deploy"
  /\ \E available \in BOOLEAN, dnsOk \in BOOLEAN :
       pc' = IF available /\ (dnsOk \/ options.force) THEN "deployConfirm" ELSE "failed"
  /\ UNCHANGED <<trackFile, engineImages, log, calls>>
  /\ deployUnchanged

\* run: 'Proceed with deployment?', asked unless --force
DeployConfirm ==
  /\ pc = "deployConfirm"
  /\ IF options.force
     THEN pc' = "deployTag" /\ UNCHANGED log
     ELSE \E cont \in BOOLEAN :
            /\ log' = Append(log, Event("confirm", <<>>, <<>>, 0, cont))
            /\ pc' = IF cont THEN "deployTag" ELSE "canceled"
  /\ UNCHANGED <<trackFile, engineImages, calls>>
  /\ deployUnchanged

\* run: the tag is --tag, the answer to the menu, or the generated tag
DeployResolveTag ==
  /\ pc = "deployTag"
  /\ LET trackedImages == getTrackedImages(trackFile, projectPath, config.localRepo)
         generated == generatedTag(calls[1])
         resolved(tag) == /\ calls' = << [calls[1] EXCEPT !.tag = tag] >>
                          /\ pc' = "deployBuild"
         generates == IF generated.threw
                      THEN pc' = "failed" /\ UNCHANGED calls
                      ELSE resolved(generated.tag)
     IN IF presentsMenu(options, trackedImages)
        THEN \E k \in 1..Len(menuChoices(trackedImages)) :
               LET selectedTag == menuChoices(trackedImages)[k]
               IN /\ log' = Append(log, Event("menu", selectedTag, <<>>, k, TRUE))
                  /\ IF selectedTag = BuildNew THEN generates ELSE resolved(selectedTag)
        ELSE /\ UNCHANGED log
             /\ IF options.tag = <<>> THEN generates ELSE resolved(options.tag)
  /\ UNCHANGED <<trackFile, engineImages>>
  /\ deployUnchanged

\* run: the build, unless --skip-build, and the tracking of the built image
DeployBuild ==
  /\ pc = "deployBuild"
  /\ LET tag == calls[1].tag
         localImage == Ref(config.localRepo, tag)
     IN IF options.skipBuild
        THEN pc' = "push" /\ UNCHANGED <<trackFile, engineImages, log>>
        ELSE \E ok \in BOOLEAN :
               /\ log' = Append(log, Event("build", localImage, <<>>, 0, ok))
               /\ IF ok
                  THEN /\ engineImages' = Append(engineImages, EngineImage(config.localRepo, tag))
                       /\ trackFile' = trackImage(trackFile,
                                         TrackedImage(projectPath, config.localRepo, tag,
                                                      IsoStamp[4], "10MB"))
                       /\ pc' = "push"
                  ELSE pc' = "failed" /\ UNCHANGED <<trackFile, engineImages>>
  /\ UNCHANGED calls
  /\ deployUnchanged

NextDeploy ==
  \/ DeployCheck
  \/ DeployConfirm
  \/ DeployResolveTag
  \/ DeployBuild

\* one run of `prim deploy` up to the push
SpecDeploy == InitDeploy /\ [][NextDeploy]_vars

----------------------------------------------------------------------------
(* A build followed by `prim clean --tag t` for the tag t of that build.      *)
(* calls[1] holds the command line of the build and the tag strategy.         *)

\* BuildCommand.resolveTag: --tag, or the generated tag
resolveTag(build) ==
  IF build.tag # <<>> THEN [threw |-> FALSE, tag |-> build.tag]
  ELSE generatedTag(build)

\* the builds: with --tag v1, with --tag 1, or with a tag made from the time
BuildCommands ==
  {[op |-> "build", tag |-> tag, strategy |-> "timestamp", projectVersion |-> <<>>,
    now |-> UtcDate(2025, 7, 9, 12, 34, 56)] : tag \in {<<>>, TagN(1), <<Digit[1]>>}}

InitBuilt ==
  /\ config \in Configs
  /\ engineImages \in Subseqs(ImageUniverse(config))
  /\ engineContainers \in ContainerChoices(engineImages)
  /\ trackFile \in TrackFiles(config)
  /\ prefsFile = Unreadable
  /\ \E build \in BuildCommands :
       /\ calls = <<build>>
       /\ options \in [tag : {resolveTag(build).tag}, yes : BOOLEAN]
  /\ pc = "build"
  /\ imagesToClean = <<>>
  /\ selectedImages = <<>>
  /\ existingTargets = <<>>
  /\ containers = <<>>
  /\ idx = 1
  /\ log = <<>>
  /\ start = [trackFile |-> trackFile, prefsFile |-> prefsFile,
              engineImages |-> engineImages, engineContainers |-> engineContainers]
  /\ procs = <<>>

\* BuildCommand.run: the build, trackImage and cleanupStaleImages on the day of
\* IsoStamp[3]; then `prim clean --tag t` starts
Build ==
  /\ pc = "build"
  /\ LET tag == resolveTag(calls[1]).tag
         localImage == Ref(config.localRepo, tag)
     IN \E ok \in BOOLEAN :
          IF ok
          THEN /\ engineImages' = IF imageExists(engineImages, localImage) THEN engineImages
                                  ELSE Append(engineImages, EngineImage(config.localRepo, tag))
               /\ trackFile' = cleanupStaleImages(
                                 trackImage(trackFile,
                                            TrackedImage(projectPath, config.localRepo, tag,
                                                         IsoStamp[3], "10MB")),
                                 3 * msPerDay)
               /\ pc' = "start"
          ELSE pc' = "failed" /\ UNCHANGED <<engineImages, trackFile>>
  /\ start' = [trackFile |-> trackFile', prefsFile |-> prefsFile,
               engineImages |-> engineImages', engineContainers |-> engineContainers]
  /\ UNCHANGED <<config, options, prefsFile, engineContainers, imagesToClean, selectedImages,
                 existingTargets, containers, idx, log, calls, procs>>

NextBuilt ==
  \/ Build
  \/ CheckAvailability
  \/ Sweep
  \/ ResolveTag
  \/ TagListContainers
  \/ TagRemoveContainer
  \/ TagRemoveImage
  \/ TagUntrack

\* a build and the run of `prim clean --tag` for its tag
SpecBuilt == InitBuilt /\ [][NextBuilt]_vars


----------------------------------------------------------------------------
(* Properties of the clean command (Spec) *)

\* the positions of the log entries with one of the given ops
LogAt(ops) == {k \in 1..Len(log) : log[k].op \in ops}

FullProjectMode == options.tag = <<>>

\* the user confirmed the checkbox prompt with nothing checked
ConfirmedNothing == \E k \in LogAt({"prompt"}) : log[k].ti = 0

C2_Original ==
  ~options.yes =>
    \A k \in LogAt({"rm", "rmi"}) : \E j \in LogAt({"prompt"}) : j < k /\ log[j].ti > 0

\* the containers of target ti of the run whose removeImage call is entry k of
\* the log: those listed for it just before in explicit-tag mode, those the
\* reconciliation found in full-project mode
targetContainers(ti, k) ==
  IF FullProjectMode THEN selectedImages[ti].containers
  ELSE log[CHOOSE j \in LogAt({"ps"}) :
             /\ j < k
             /\ log[j].ti = ti
             /\ \A i \in LogAt({"ps"}) : (i < k /\ log[i].ti = ti) => i <= j].ids

\* C3: in both modes, when removeImage is called for a target, the removal of
\* each of that target's containers has been attempted before, and none of them
\* is attempted afterwards.
C3_ContainersBeforeImage ==
  \A k \in LogAt({"rmi"}) :
    /\ \A id \in SeqToSet(targetContainers(log[k].ti, k)) :
         \E j \in LogAt({"rm"}) : j < k /\ log[j].ti = log[k].ti /\ log[j].ids = <<id>>
    /\ \A j \in LogAt({"rm"}) : log[j].ti = log[k].ti => j < k

\* C3: a full-project run that removed two images, the second of which has a
\* container
C3_Witness ==
  /\ pc = "done"
  /\ FullProjectMode
  /\ Len(selectedImages) >= 2
  /\ selectedImages[1].containers = <<>>
  /\ selectedImages[2].containers # <<>>
  /\ \E k \in LogAt({"rmi"}) : log[k].ti = 2

\* the number of removeImage calls for a reference
removeImageCalls(ref) == Cardinality({k \in LogAt({"rmi"}) : log[k].ref = ref})

selectedRefs == {selectedImages[k].image : k \in 1..Len(selectedImages)}

\* C8: a full-project run that reached DONE with only untracked targets
\* selected left the Tracking Store as it was, called removeImage once for each
\* selected target and for no other reference.
C8_UntrackedSelectionLeavesTracking ==
  ( /\ pc = "done"
    /\ FullProjectMode
    /\ \A k \in 1..Len(selectedImages) : ~selectedImages[k].isTracked )
  =>
    /\ trackFile = start.trackFile
    /\ LogAt({"writeTrack"}) = {}
    /\ \A ref \in selectedRefs : removeImageCalls(ref) = 1
    /\ \A k \in LogAt({"rmi"}) : log[k].ref \in selectedRefs

\* C8: v1 is tracked, the engine holds v1 and v2 of the local repository, the
\* user selected v2 alone and the run is done
C8_Witness ==
  /\ pc = "done"
  /\ FullProjectMode
  /\ ~options.yes
  /\ config.localRepo = <<"a">>
  /\ Len(imagesToClean) = 2
  /\ \E k \in 1..2 : imagesToClean[k].image = Ref(config.localRepo, TagN(1))
                     /\ imagesToClean[k].isTracked
  /\ Len(selectedImages) = 1
  /\ selectedImages[1].image = Ref(config.localRepo, TagN(2))
  /\ ~selectedImages[1].isTracked
  /\ removeImageCalls(selectedImages[1].image) = 1

\* the tag of --tag with a leading v, and the two references of that tag
vTag == IF options.tag[1] = "v" THEN options.tag ELSE <<"v">> \o options.tag

vRefs == {config.localRepo \o <<":">> \o vTag, config.registryRepo \o <<":">> \o vTag}

\* C9: in explicit-tag mode every engine call is made for one of the two
\* references localRepo:vTag and registryRepo:vTag; when the engine held
\* neither when the command started, the run ends with the message that no
\* images were found for vTag, without a container removal, an image removal or
\* a removeTrackedImage call.
C9_TagNormalizedAndNoneFound ==
  ~FullProjectMode =>
    /\ \A k \in LogAt({"rmi", "ps"}) : log[k].ref \in vRefs
    /\ \A k \in LogAt({"untrack", "noImages"}) : log[k].ref = vTag
    /\ Cardinality({log[k].ref : k \in LogAt({"rmi"})}) <= 2
    /\ ( /\ pc \notin {"start", "sweep", "specificTag", "failed"}
         /\ \A ref \in vRefs : ~imageExists(start.engineImages, ref) )
       =>
         /\ pc = "noImages"
         /\ LogAt({"noImages"}) # {}
         /\ LogAt({"rm", "rmi", "untrack", "writeTrack"}) = {}
         /\ trackFile = start.trackFile

\* C9: `clean --tag 1` ended with "No images found with tag: v1" while v1 is
\* tracked and the engine holds other images
C9_Witness ==
  /\ options.tag = <<"1">>
  /\ pc = "noImages"
  /\ \E k \in LogAt({"noImages"}) : log[k].ref = <<"v", "1">>
  /\ engineImages # <<>>
  /\ trackKey(projectPath, config.localRepo, <<"v", "1">>) \in trackedKeys(trackFile)

\* C10: when a full-project run has reached DONE, the Tracking Store holds no
\* entry for (projectPath, localRepo, tag) of any selected target that is
\* tracked, whether its removeImage call succeeded or failed.
C10_TrackedTargetsUntracked ==
  (pc = "done" /\ FullProjectMode) =>
    \A k \in 1..Len(selectedImages) :
      selectedImages[k].isTracked =>
        trackKey(projectPath, config.localRepo, selectedImages[k].tag)
          \notin trackedKeys(trackFile)

\* C10: a run is done, a selected tracked target's removeImage call failed
\* although the engine holds the image, and its entry, which the store held
\* when the command started, is gone
C10_Witness ==
  /\ pc = "done"
  /\ FullProjectMode
  /\ \E k \in 1..Len(selectedImages) :
       /\ selectedImages[k].isTracked
       /\ imageExists(engineImages, selectedImages[k].image)
       /\ \E j \in LogAt({"rmi"}) : log[j].ti = k /\ ~log[j].ok
       /\ trackKey(projectPath, config.localRepo, selectedImages[k].tag)
            \in trackedKeys(start.trackFile)
       /\ trackKey(projectPath, config.localRepo, selectedImages[k].tag)
            \notin trackedKeys(trackFile)

----------------------------------------------------------------------------
(* Properties of the reconciliation (SpecRecon) *)

\* what getTrackedImages and getAllProjectImages return to gatherAllRelevantImages
trackedList == getTrackedImages(trackFile, projectPath, config.localRepo)

liveList == getAllProjectImages(engineImages, config.localRepo, config.registryRepo)

trackedRefs == {Ref(config.localRepo, trackedList[k].tag) : k \in 1..Len(trackedList)}

liveRefs == {liveList[k].image : k \in 1..Len(liveList)}

\* C4: the reconciled list holds one target for each reference that is tracked
\* or listed by the engine, and no two of its targets have the same image.
C4_OneTargetPerReference ==
  pc = "reconciled" =>
    /\ \A j, k \in 1..Len(imagesToClean) :
         imagesToClean[j].image = imagesToClean[k].image => j = k
    /\ {imagesToClean[k].image : k \in 1..Len(imagesToClean)} = trackedRefs \cup liveRefs

\* C4: a reference is tracked, listed by the engine, and listed twice (the
\* local repository is the registry repository), and the list holds it once
C4_Witness ==
  /\ pc = "reconciled"
  /\ \E ref \in trackedRefs \cap liveRefs :
       /\ Cardinality({k \in 1..Len(liveList) : liveList[k].image = ref}) = 2
       /\ Cardinality({k \in 1..Len(imagesToClean) : imagesToClean[k].image = ref}) = 1
  /\ Len(imagesToClean) = 2

\* the tracked entry and the live entry of a reference that has both
trackedOf(ref) ==
  trackedList[CHOOSE k \in 1..Len(trackedList) : Ref(config.localRepo, trackedList[k].tag) = ref]

liveOf(ref) == liveList[CHOOSE k \in 1..Len(liveList) : liveList[k].image = ref]

\* C5: the target of a reference that is tracked and live has the tracked size
\* if the tracked entry has one and the live size otherwise, and the tracked
\* build timestamp if the entry has one and the live created label otherwise.
C5_TrackedFieldsPreferred ==
  pc = "reconciled" =>
    \A k \in 1..Len(imagesToClean) :
      LET t == imagesToClean[k] IN
      t.image \in trackedRefs \cap liveRefs =>
        /\ t.size = IF trackedOf(t.image).size \notin {undefined, ""}
                    THEN trackedOf(t.image).size ELSE liveOf(t.image).size
        /\ t.created = IF trackedOf(t.image).builtAt \notin {undefined, ""}
                       THEN trackedOf(t.image).builtAt ELSE liveOf(t.image).created

\* C5: of two targets that are tracked and live, one has the size and the
\* timestamp of its tracked entry, the other, whose entry has neither, those of
\* the engine
C5_Witness ==
  /\ pc = "reconciled"
  /\ \E j, k \in 1..Len(imagesToClean) :
       /\ {imagesToClean[j].image, imagesToClean[k].image} \subseteq trackedRefs \cap liveRefs
       /\ trackedOf(imagesToClean[j].image).size = "9MB"
       /\ imagesToClean[j].size = "9MB"
       /\ imagesToClean[j].created = IsoStamp[2]
       /\ trackedOf(imagesToClean[k].image).size = undefined
       /\ trackedOf(imagesToClean[k].image).builtAt = undefined
       /\ imagesToClean[k].size = "10MB"
       /\ imagesToClean[k].created = "2 days ago"

\* the lists the reconciliation produces from the same tracked entries and the
\* same live entries in every order
reorderedResults ==
  {reconcile(t, l, engineContainers, config.localRepo) :
     t \in Perms(trackedList), l \in Perms(liveList)}

\* C6, as amended: the reconciliation of the same tracked entries and the same
\* live entries in any order produces the same targets with the same fields;
\* only the order of the list may differ.
C6_SameTargetsInAnyOrder ==
  pc = "reconciled" =>
    \A r \in reorderedResults :
      /\ SeqToSet(r) = SeqToSet(imagesToClean)
      /\ Len(r) = Len(imagesToClean)

\* C6, as stated: the reconciliation of the same tracked entries and the same
\* live entries in any order produces the same list.
C6_Original ==
  pc = "reconciled" => \A r \in reorderedResults : r = imagesToClean

\* C6: two untracked live images in the order the engine lists them, and in the
\* other order when the engine lists them the other way round
C6_Witness ==
  /\ pc = "reconciled"
  /\ trackedList = <<>>
  /\ Len(imagesToClean) = 2
  /\ <<imagesToClean[2], imagesToClean[1]>> \in reorderedResults
  /\ imagesToClean \in reorderedResults

----------------------------------------------------------------------------
(* Properties of the Preference Store (SpecStore) *)

\* the store holds an entry for (p, i)
hasPreference(file, p, i) ==
  /\ file.ok
  /\ p \in DOMAIN file.data
  /\ i \in DOMAIN file.data[p]

\* C7: getExcludedTags(p, i) right after saveExcludedTags(p, i, T) returns T;
\* right after saveExcludedTags(p, i, <<>>) the store holds no entry for (p, i).
C7_ExclusionRoundTrip ==
  /\ \A k \in 2..Len(calls) :
       ( /\ calls[k].op = "getExcludedTags"
         /\ calls[k - 1].op = "saveExcludedTags"
         /\ calls[k].p = calls[k - 1].p
         /\ calls[k].i = calls[k - 1].i )
       => calls[k].tags = calls[k - 1].tags
  /\ ( /\ calls # <<>>
       /\ calls[Len(calls)].op = "saveExcludedTags"
       /\ calls[Len(calls)].tags = <<>> )
     => ~hasPreference(prefsFile, calls[Len(calls)].p, calls[Len(calls)].i)

\* C7: v1 was excluded; v1 and v2 are saved and read back, then the empty list
\* is saved and the entry is gone
C7_Witness ==
  /\ getExcludedTags(start.prefsFile, projectPath, <<"a">>) = <<TagN(1)>>
  /\ Len(calls) = 3
  /\ calls[1] = Call("saveExcludedTags", projectPath, <<"a">>, <<TagN(1), TagN(2)>>)
  /\ calls[2] = Call("getExcludedTags", projectPath, <<"a">>, <<TagN(1), TagN(2)>>)
  /\ calls[3] = Call("saveExcludedTags", projectPath, <<"a">>, <<>>)
  /\ ~hasPreference(prefsFile, projectPath, <<"a">>)
  /\ prefsFile.ok

----------------------------------------------------------------------------
(* Further properties of the clean command (Spec) *)

\* the removeImage calls made for target ti with reference ref
imageAttempts(ti, ref) == {k \in LogAt({"rmi"}) : log[k].ti = ti /\ log[k].ref = ref}

\* a removal of container id was attempted for target ti
containerAttempted(ti, id) ==
  \E j \in LogAt({"rm"}) : log[j].ti = ti /\ log[j].ids = <<id>>

\* C11: whatever removals fail, a run that has started removing does not end
\* before its removal loops are through, and once they are through, the removal
\* of every listed container of every selected target has been attempted and
\* removeImage has been called exactly once for every selected target.
C11_EveryRemovalAttempted ==
  /\ LogAt({"rm", "rmi"}) # {} => pc \notin {"failed", "noImages", "noneSelected"}
  /\ (FullProjectMode /\ pc \in {"updateTracking", "done"}) =>
       /\ \A ti \in 1..Len(selectedImages) :
            /\ Cardinality(imageAttempts(ti, selectedImages[ti].image)) = 1
            /\ \A id \in SeqToSet(selectedImages[ti].containers) : containerAttempted(ti, id)
       /\ Cardinality(LogAt({"rmi"})) = Len(selectedImages)
  /\ (~FullProjectMode /\ pc \in {"tagUntrack", "done"}) =>
       /\ \A ti \in 1..Len(existingTargets) :
            /\ Cardinality(imageAttempts(ti, existingTargets[ti])) = 1
            /\ \A j \in LogAt({"ps"}) :
                 log[j].ti = ti => \A id \in SeqToSet(log[j].ids) : containerAttempted(ti, id)
       /\ Cardinality(LogAt({"rmi"})) = Len(existingTargets)

\* C11: a full-project run that went on to its end after the removal of the
\* first target's container failed and the removal of the first image failed
C11_Witness ==
  /\ pc = "done"
  /\ FullProjectMode
  /\ Len(selectedImages) >= 2
  /\ \E j \in LogAt({"rm"}) : log[j].ti = 1 /\ ~log[j].ok
  /\ \E k \in LogAt({"rmi"}) : log[k].ti = 1 /\ ~log[k].ok
  /\ \E k \in LogAt({"rmi"}) : log[k].ti = 2 /\ log[k].ok

\* the tags of the targets the user left unchecked
uncheckedTags ==
  {imagesToClean[k].tag :
     k \in {j \in 1..Len(imagesToClean) : imagesToClean[j] \notin SeqToSet(selectedImages)}}

\* the exclusion set the store holds for this project
persistedExclusions == SeqToSet(getExcludedTags(prefsFile, projectPath, config.localRepo))

\* C12, as stated: after the checkbox prompt is confirmed, the exclusion set
\* persisted for (projectPath, localRepo) is the set of the tags of the targets
\* left unchecked, also when two candidates carry the same tag.
C12_Original ==
  LogAt({"prompt"}) # {} => persistedExclusions = uncheckedTags

\* C13: a full-project run with --yes issues no prompt, never ends with nothing
\* selected, selects the whole reconciled list and calls removeImage for every
\* target of it, those with an excluded tag included.
C13_YesCleansEverything ==
  (FullProjectMode /\ options.yes) =>
    /\ LogAt({"prompt"}) = {}
    /\ pc \notin {"select", "noneSelected"}
    /\ pc \in {"removeContainers", "removeImages", "updateTracking", "done"} =>
         selectedImages = imagesToClean
    /\ pc \in {"updateTracking", "done"} =>
         \A k \in 1..Len(imagesToClean) : imageAttempts(k, imagesToClean[k].image) # {}

\* C13: a finished --yes run that removed an image whose tag was excluded
C13_Witness ==
  /\ pc = "done"
  /\ FullProjectMode
  /\ options.yes
  /\ \E k \in 1..Len(imagesToClean) :
       /\ imagesToClean[k].tag
            \in SeqToSet(getExcludedTags(start.prefsFile, projectPath, config.localRepo))
       /\ \E j \in imageAttempts(k, imagesToClean[k].image) : log[j].ok

----------------------------------------------------------------------------
(* Properties of the Tracking Store (SpecTrack) *)

\* the entries the store holds under a key
entriesOf(file, key) ==
  SelectSeq(loadTrackedImages(file), LAMBDA e : e.key = key)

\* the calls that track or remove the key
callsTouching(key) ==
  {j \in 1..Len(calls) :
     calls[j].op \in {"trackImage", "removeTrackedImage"} /\ calls[j].key = key}

\* the most recent of them
lastTouching(key) ==
  CHOOSE j \in callsTouching(key) : \A i \in callsTouching(key) : i <= j

\* the keys of the calls and of the file the calls started from
knownKeys ==
  trackedKeys(start.trackFile) \cup
  {trackKey(p, n, t) : p \in TrackPaths, n \in TrackImageNames, t \in TrackTags}

\* C14: the store never holds two entries under one key, and every entry is
\* filed under the key of its project path, image name and tag; after trackImage
\* and removeTrackedImage calls only, a key that was last tracked holds the image
\* of that trackImage call, a key that was last removed holds nothing, and a key
\* no call named holds what it held before.
C14_OneEntryPerKeyLastWins ==
  /\ \A j, k \in 1..Len(loadTrackedImages(trackFile)) :
       loadTrackedImages(trackFile)[j].key = loadTrackedImages(trackFile)[k].key => j = k
  /\ \A k \in 1..Len(loadTrackedImages(trackFile)) :
       LET e == loadTrackedImages(trackFile)[k]
       IN e.key = trackKey(e.image.projectPath, e.image.imageName, e.image.tag)
  /\ (\A j \in 1..Len(calls) : calls[j].op \in {"trackImage", "removeTrackedImage"}) =>
       \A key \in knownKeys :
         IF callsTouching(key) = {}
         THEN entriesOf(trackFile, key) = entriesOf(start.trackFile, key)
         ELSE IF calls[lastTouching(key)].op = "trackImage"
         THEN entriesOf(trackFile, key) =
                <<[key |-> key, image |-> calls[lastTouching(key)].image]>>
         ELSE entriesOf(trackFile, key) = <<>>

\* C14: a:v1 of this project, tracked from a build of day 1, is tracked again
\* from a build of day 3; the store holds the second record only, in the place
\* of the first, next to the entry of the other project
C14_Witness ==
  /\ Len(calls) = 2
  /\ calls[1].op = "trackImage" /\ calls[2].op = "trackImage"
  /\ calls[1].key = trackKey(projectPath, <<"a">>, TagN(1))
  /\ calls[2].key = calls[1].key
  /\ calls[1].image.builtAt = IsoStamp[1]
  /\ calls[2].image.builtAt = IsoStamp[3]
  /\ Len(loadTrackedImages(trackFile)) = 2
  /\ loadTrackedImages(trackFile)[1] = [key |-> calls[2].key, image |-> calls[2].image]
  /\ loadTrackedImages(trackFile)[2] = OtherEntry(config)

\* C15: removeTrackedImage for a key the store holds leaves the other entries
\* as they were, in their order, and takes that one entry away; for a key the
\* store does not hold it leaves the file as it was and does not write it.
C15_RemoveOnlyThatEntry ==
  (calls # <<>> /\ calls[Len(calls)].op = "removeTrackedImage") =>
    LET c == calls[Len(calls)]
        was == loadTrackedImages(c.before)
    IN IF \E k \in 1..Len(was) : was[k].key = c.key
       THEN /\ loadTrackedImages(trackFile) = SelectSeq(was, LAMBDA e : e.key # c.key)
            /\ Len(loadTrackedImages(trackFile)) = Len(was) - 1
            /\ trackFile.ok
            /\ c.wrote
       ELSE /\ trackFile = c.before
            /\ ~c.wrote

\* C15: a:v1 of this project is removed while a:v1 of the other project stays,
\* and removing it a second time changes nothing and writes nothing
C15_Witness ==
  /\ Len(calls) = 2
  /\ calls[1].op = "removeTrackedImage" /\ calls[2].op = "removeTrackedImage"
  /\ calls[1].key = trackKey(projectPath, <<"a">>, TagN(1))
  /\ calls[2].key = calls[1].key
  /\ calls[1].wrote
  /\ ~calls[2].wrote
  /\ start.trackFile.data = <<BuiltEntry(config, 1, "9MB"), OtherEntry(config)>>
  /\ trackFile.data = <<OtherEntry(config)>>

\* the age of an entry at time now, in milliseconds
ageAt(e, now) == now - newDate(e.image.builtAt).t * msPerDay

\* C16: after cleanupStaleImages at time now, no entry built more than 7 days
\* before now is left, of whatever project, and every entry built 7 days before
\* now or later is in the store as it was.
C16_StaleGoneFreshKept ==
  (calls # <<>> /\ calls[Len(calls)].op = "cleanupStaleImages") =>
    LET c == calls[Len(calls)]
        was == loadTrackedImages(c.before)
        is == loadTrackedImages(trackFile)
    IN /\ \A k \in 1..Len(is) : ~(ageAt(is[k], c.now) > 7 * msPerDay)
       /\ \A k \in 1..Len(was) :
            ageAt(was[k], c.now) <= 7 * msPerDay =>
              \E j \in 1..Len(is) : is[j] = was[k]
       /\ \A j \in 1..Len(is) : \E k \in 1..Len(was) : is[j] = was[k]

\* C16: at 7 days after day 3, the entry of the other project built on day 1
\* goes, the entry built on day 3, exactly 7 days old, stays
C16_Witness ==
  /\ calls # <<>>
  /\ calls[Len(calls)].op = "cleanupStaleImages"
  /\ calls[Len(calls)].now = 10 * msPerDay
  /\ calls[Len(calls)].wrote
  /\ \E k \in 1..Len(loadTrackedImages(calls[Len(calls)].before)) :
       LET e == loadTrackedImages(calls[Len(calls)].before)[k]
       IN e.image.projectPath = OtherPath /\ e.image.builtAt = IsoStamp[1]
  /\ Len(loadTrackedImages(trackFile)) = 1
  /\ loadTrackedImages(trackFile)[1].image.builtAt = IsoStamp[3]

----------------------------------------------------------------------------
(* Further properties of the Preference Store (SpecStore) *)

\* C17: whatever saveExcludedTags, clearPreferences and cleanupStalePreferences
\* calls were made, the store holds no (project path, image name) entry with an
\* empty tag list.
C17_NoEmptyExclusionEntry ==
  \A p \in DOMAIN loadPreferences(prefsFile) :
    \A i \in DOMAIN loadPreferences(prefsFile)[p] :
      loadPreferences(prefsFile)[p][i] # <<>>

\* C17: the store held v1 for image a of this project; v2 is saved for image b,
\* the exclusions of a are cleared, the stale projects are swept, and the store
\* holds the entry of b alone
C17_Witness ==
  /\ start.prefsFile = PrefsFile(config, <<TagN(1)>>, FALSE)
  /\ calls = << Call("saveExcludedTags", projectPath, <<"b">>, <<TagN(2)>>),
               Call("clearPreferences", projectPath, <<"a">>, <<>>),
               Call("cleanupStalePreferences", <<>>, <<>>, <<>>) >>
  /\ prefsFile.ok
  /\ prefsFile.data = Put(EmptyObject, projectPath, Put(EmptyObject, <<"b">>, <<TagN(2)>>))

----------------------------------------------------------------------------
(* Further properties of the reconciliation (SpecRecon) *)

\* the time a target is to be ordered by: its creation or build time, and
\* epoch zero when its timestamp is missing or unparseable
orderingTime(target) ==
  IF truthy(target.created) /\ ~newDate(target.created).nan
  THEN newDate(target.created).t
  ELSE 0

----------------------------------------------------------------------------
(* Properties of concurrent invocations (SpecRace) *)

\* the position in the log of the read and of the write of invocation n
loadAt(n) == CHOOSE k \in LogAt({"load"}) : log[k].ti = n

writeAt(n) == CHOOSE k \in LogAt({"write"}) : log[k].ti = n

\* the store holds what invocation n wrote
holdsEntryOf(n) ==
  IF procs[n].op = "trackImage"
  THEN entriesOf(trackFile, trackKey(procs[n].image.projectPath, procs[n].image.imageName,
                                     procs[n].image.tag))
         = <<[key |-> trackKey(procs[n].image.projectPath, procs[n].image.imageName,
                               procs[n].image.tag),
              image |-> procs[n].image]>>
  ELSE getExcludedTags(prefsFile, procs[n].p, procs[n].i) = procs[n].tags

\* both invocations have returned from a call on the same store
bothReturned ==
  /\ Len(procs) = 2
  /\ procs[1].at = "returned" /\ procs[2].at = "returned"
  /\ procs[1].op = procs[2].op

\* C19: when two invocations call trackImage, or both saveExcludedTags, with
\* different keys and each reads the file before the other has written it, the
\* store afterwards holds the entry of the one that wrote last and not the entry
\* of the one that wrote first; when one reads only after the other has written,
\* the store holds both entries.
C19_InterleavedWriteLosesEntry ==
  bothReturned =>
    \A n, m \in 1..2 :
      (n # m /\ writeAt(n) < writeAt(m)) =>
        /\ holdsEntryOf(m)
        /\ holdsEntryOf(n) <=> writeAt(n) < loadAt(m)

\* C19: both invocations call trackImage and both read before either writes;
\* the first one writes first and its entry for a:v1 is not in the store, which
\* was empty before
C19_Witness ==
  /\ bothReturned
  /\ procs[1].op = "trackImage"
  /\ loadAt(1) < writeAt(1) /\ loadAt(2) < writeAt(1) /\ writeAt(1) < writeAt(2)
  /\ ~holdsEntryOf(1)
  /\ holdsEntryOf(2)
  /\ start.trackFile = Unreadable
  /\ trackKey(projectPath, <<"a">>, TagN(1)) \notin trackedKeys(trackFile)

----------------------------------------------------------------------------
(* Properties of tag generation (SpecTag) *)

\* C20, as stated: a tag generated by the timestamp, git_commit, git_tag or
\* semver strategy, fallbacks included, begins with v; the tag of the manual
\* strategy is the tag that was supplied.
C20_Original ==
  (pc = "tagged" /\ ~calls[1].result.threw) =>
    IF calls[1].strategy = "manual"
    THEN calls[1].result.tag = calls[1].opts.explicitTag
    ELSE startsWith(calls[1].result.tag, <<"v">>)


----------------------------------------------------------------------------
(* Properties of the deploy command (SpecDeploy) *)

\* C21: a deploy with --force-build and without --tag never presents the menu
\* of previously built images, and what it builds carries the generated tag
C21_Original ==
  (options.forceBuild /\ options.tag = <<>> /\ ~options.skipBuild) =>
    /\ LogAt({"menu"}) = {}
    /\ \A k \in LogAt({"build"}) :
         log[k].ref = Ref(config.localRepo, generatedTag(calls[1]).tag)

----------------------------------------------------------------------------
(* The order of the phases of a cleanup run (Spec) *)

\* the run removes the Tracking Store entries only after every removal call
untrackingLast ==
  \A u \in LogAt({"untrack"}) : \A k \in LogAt({"rm", "rmi"}) : k < u

----------------------------------------------------------------------------
(* The tracked mark of the reconciled targets (SpecRecon) *)

\* the references localRepo:tag of the Tracking Store entries recorded for
\* this project and its local repository
recordedRefs ==
  {Ref(config.localRepo, e.image.tag) :
     e \in {x \in SeqToSet(loadTrackedImages(trackFile)) :
              /\ x.image.projectPath = projectPath
              /\ x.image.imageName = config.localRepo}}

\* the targets of the reconciled list with the given reference
targetsOf(ref) == {k \in 1..Len(imagesToClean) : imagesToClean[k].image = ref}

\* C23: every Tracking Store entry of (projectPath, localRepo) has a target
\* localRepo:tag with isTracked = true, whether or not the engine lists the
\* image; a target with isTracked = true is localRepo:tag of such an entry; and
\* every image the engine lists that is not tracked has a target with
\* isTracked = false.
C23_TrackedMarkMatchesStore ==
  pc = "reconciled" =>
    /\ \A ref \in recordedRefs :
         \E k \in targetsOf(ref) : imagesToClean[k].isTracked
    /\ \A k \in 1..Len(imagesToClean) :
         imagesToClean[k].isTracked => imagesToClean[k].image \in recordedRefs
    /\ \A ref \in liveRefs \ recordedRefs :
         \E k \in targetsOf(ref) : ~imagesToClean[k].isTracked

\* C23: the list holds a tracked target the engine no longer lists, a tracked
\* target the engine lists and an untracked target of the registry repository
C23_Witness ==
  /\ pc = "reconciled"
  /\ recordedRefs \ liveRefs # {}
  /\ recordedRefs \cap liveRefs # {}
  /\ \E k \in 1..Len(imagesToClean) :
       /\ ~imagesToClean[k].isTracked
       /\ imagesToClean[k].image \in liveRefs
       /\ startsWith(imagesToClean[k].image, config.registryRepo)
  /\ \E k \in 1..Len(imagesToClean) :
       imagesToClean[k].isTracked /\ imagesToClean[k].image \notin liveRefs

----------------------------------------------------------------------------
(* Termination of a cleanup run. Every pass of the removal loops is an        *)
(* awaited call that returns, with success or with an error that is           *)
(* swallowed, so a run that is in one of these loops eventually takes its     *)
(* step. Nothing is assumed of the steps before: the prompt may never be      *)
(* answered.                                                                  *)

\* the runs whose termination is checked: one configuration, no readable
\* Preference Store, every engine state and every Tracking Store of Init
InitLive ==
  /\ Init
  /\ config = [localRepo |-> <<"a">>, registryRepo |-> <<"r", "/", "a">>]
  /\ prefsFile = Unreadable
  /\ options.tag \in {<<>>, TagN(1)}

\* one run of `prim clean` whose calls return
SpecLive ==
  /\ InitLive
  /\ [][Next]_vars
  /\ WF_vars(RemoveContainer)
  /\ WF_vars(RemoveImage)
  /\ WF_vars(UpdateTracking)
  /\ WF_vars(TagListContainers)
  /\ WF_vars(TagRemoveContainer)
  /\ WF_vars(TagRemoveImage)
  /\ WF_vars(TagUntrack)

\* the run is in one of its removal loops
Removing ==
  pc \in {"removeContainers", "removeImages", "updateTracking",
          "tagContainers", "tagRemoveContainers", "tagRemoveImage", "tagUntrack"}

\* C24: a run that has begun removing reaches DONE, whatever the outcome of
\* each removal call
C24_RemovingRunReachesDone == Removing ~> (pc = "done")

\* C24: a full-project run reached DONE although a container removal and an
\* image removal failed
C24_Witness ==
  /\ pc = "done"
  /\ FullProjectMode
  /\ \E j \in LogAt({"rm"}) : ~log[j].ok
  /\ \E k \in LogAt({"rmi"}) : ~log[k].ok
  /\ Len(selectedImages) >= 2

----------------------------------------------------------------------------
(* A run without a usable container engine (Spec) *)

\* C25: a run that was aborted because the engine is not installed or its
\* daemon does not run has written neither store, the staleness sweep of the
\* Preference Store included, has listed nothing and has issued no removal.
C25_UnavailableEngineTouchesNothing ==
  pc = "failed" =>
    /\ log = <<>>
    /\ prefsFile = start.prefsFile
    /\ trackFile = start.trackFile
    /\ engineImages = start.engineImages
    /\ engineContainers = start.engineContainers
    /\ imagesToClean = <<>>
    /\ existingTargets = <<>>

\* C25: a run was aborted although the Preference Store holds the exclusions
\* of a project that is gone, the Tracking Store holds builds of this project
\* and the engine holds images with a container
C25_Witness ==
  /\ pc = "failed"
  /\ staleProjects(prefsFile) # {}
  /\ Len(loadTrackedImages(trackFile)) >= 2
  /\ engineImages # <<>>
  /\ engineContainers # <<>>

----------------------------------------------------------------------------
(* Properties of the store calls (SpecKeys) *)

\* the calls of one of the given operations
KeyCallsOf(ops) == {k \in 1..Len(calls) : calls[k].op \in ops}

\* the exclusions a Preference Store file holds for a project and an image
storedExclusions(file, p, n) ==
  IF file.ok /\ p \in DOMAIN file.data /\ n \in DOMAIN file.data[p]
  THEN file.data[p][n] ELSE <<>>

\* C26: trackImage leaves every entry stored under another key as it was, and
\* saveExcludedTags leaves the exclusions of every other (project, image) as
\* they were, also when the read of the store file failed and the write
\* succeeded.
C26_Original ==
  /\ \A k \in KeyCallsOf({"trackImage"}) :
       \A e \in SeqToSet(loadTrackedImages(calls[k].before)) :
         e.key # trackKey(calls[k].p, calls[k].n, calls[k].arg) =>
           e \in SeqToSet(loadTrackedImages(calls[k].after))
  /\ \A k \in KeyCallsOf({"saveExcludedTags"}) :
       \A p \in KeyPaths \cup {GonePath}, n \in KeyImageNames :
         <<p, n>> # <<calls[k].p, calls[k].n>> =>
           storedExclusions(calls[k].after, p, n) = storedExclusions(calls[k].before, p, n)

\* the images of the entries a Tracking Store file records for a project and
\* an image name
recordedFor(file, p, n) ==
  {e.image : e \in {x \in SeqToSet(loadTrackedImages(file)) :
                      x.image.projectPath = p /\ x.image.imageName = n}}

\* C28: getTrackedImages(p, n) returns the entries recorded with projectPath p
\* and imageName n, all of them and no entry recorded for another pair, also
\* when the paths contain ':'.
C28_Original ==
  \A k \in KeyCallsOf({"getTrackedImages"}) :
    SeqToSet(calls[k].result) = recordedFor(calls[k].before, calls[k].p, calls[k].n)

----------------------------------------------------------------------------
(* The tag of a live target (SpecRecon) *)

\* the text after the last ':' of a reference
afterLastColon(ref) == split(ref, ":")[Len(split(ref, ":"))]

\* C27: the target of every image the engine lists carries as its tag the text
\* after the last ':' of its reference, also when the registry host has a port.
C27_Original ==
  pc = "reconciled" =>
    \A k \in 1..Len(imagesToClean) :
      imagesToClean[k].image \in liveRefs =>
        imagesToClean[k].tag = afterLastColon(imagesToClean[k].image)

----------------------------------------------------------------------------
(* The exclusions persisted by the selection (Spec) *)

\* the exclusions the store holds for this project, as the list that is stored
persistedList == getExcludedTags(prefsFile, projectPath, config.localRepo)

\* C29: after a confirmed interactive selection the persisted exclusions of
\* (projectPath, localRepo) hold no tag twice and only tags of the current
\* candidates: an excluded tag without candidate is dropped, and a tag of two
\* unchecked targets is stored once.
C29_Original ==
  LogAt({"prompt"}) # {} =>
    /\ \A j, k \in 1..Len(persistedList) : persistedList[j] = persistedList[k] => j = k
    /\ SeqToSet(persistedList) \subseteq
         {imagesToClean[k].tag : k \in 1..Len(imagesToClean)}

----------------------------------------------------------------------------
(* Cleaning the tag of a build (SpecBuilt) *)

\* C30: when `clean --tag t` has run for the tag t of a recorded build whose
\* image the engine holds, removeImage was called for localRepo:t and the
\* Tracking Store holds no entry for (projectPath, localRepo, t), whether or not
\* t begins with 'v'.
C30_Original ==
  pc \in {"done", "noImages"} =>
    /\ \E k \in LogAt({"rmi"}) : log[k].ref = Ref(config.localRepo, options.tag)
    /\ trackKey(projectPath, config.localRepo, options.tag) \notin trackedKeys(trackFile)
====
